---- MODULE Spec2Model ----
(***************************************************************************)
(* A model of bms-preview-generator: the tempo walk of                     *)
(* Renderer::get_wav_timings and the render of Renderer::process_bms_file  *)
(* (src/src/bms_preview/renderer.rs), the buffer operations of StereoAudio *)
(* (src/src/bms_preview/stereo_audio.rs), the batch of process_folder      *)
(* (src/src/bms_preview.rs) and the chart discovery of src/src/main.rs.    *)
(*                                                                         *)
(* Numbers.  The program computes times in f64 and samples in f32.  The    *)
(* model computes them exactly, as rationals <<n, d>> in lowest terms with *)
(* d > 0; the f32 results of a division by zero are kept as <<0, 0>> (NaN), *)
(* <<1, 0>> (+Inf) and <<-1, 0>> (-Inf).  Rounding is not modelled.         *)
(***************************************************************************)
EXTENDS Integers, Sequences, FiniteSets, TLC

VARIABLES
    \* ---- Renderer::get_wav_timings
    bms,                  \* the parsed chart (self.bms) and self.base_path
    pc,                   \* position of the call: "seed", "walk", "done", "idle"
    sorted,               \* the background notes after sorted_by
    idx,                  \* number of notes the for_each has visited
    current_bpm,
    current_section_time,
    next_section_time,
    previous_section,
    timings,              \* the HashMap<PathBuf, Vec<f64>> being built
    walked,               \* per visited note: the locals of its iteration
    \* ---- StereoAudio
    buffer,               \* self.buffer of the destination
    sample_rate,          \* self.sample_rate of the destination
    nops,                 \* number of calls made on the destination
    calls,                \* the calls made, each with the buffer it found
    \* ---- Renderer::process_bms_file and StereoAudio::encode
    args,                 \* the configuration (Args)
    files,                \* the audio files on disk, by path
    preview,              \* the file at preview_path: <<>> or <<content>>
    preview_was,          \* the file at preview_path when the call began
    rpc,                  \* position of the call
    result,               \* <<>> until the call returns, then <<its result>>
    order,                \* the order in which the timing map is iterated
    pidx,                 \* entries the current loop has visited
    probes,               \* the Vec<(Probe, Vec<f64>)> collected
    rate_opt,             \* the local sample_rate: Option<u32>
    song_length,
    start,
    end,
    opened,               \* paths handed to Probe::new
    loaded,               \* paths handed to StereoAudio::load, with the outcome
    mixed,                \* the calls render.add(&audio, time - start) made
    encoder,              \* <<>> or <<the encoder's configuration>>
    eidx,                 \* iterations the loop of encode has made
    taken,                \* items taken from the iterators left and right
    submitted,            \* the blocks handed to encode_audio_block
    \* ---- StereoAudio::load
    load_probe,           \* the Probe handed to load
    lpc,                  \* position of the call
    load_result,          \* <<>> until load returns, then <<its result>>
    \* ---- the directory tree of the songs folder
    tree,                 \* the entries of the tree: path and kind
    listing,              \* per directory, its entries in the order read
    \* ---- process_folder
    fpc,                  \* position of the call
    walk,                 \* the items WalkDir yields
    widx,                 \* items the filter_map has visited
    explored_folders,
    bms_files,
    jobs,                 \* per selected chart, the state of its job
    attempts,             \* the charts handed to Renderer::new, in order
    writes,               \* the output files created: job and path
    folder_result,        \* <<>> until process_folder returns
    \* ---- get_bms_files of main.rs
    dpc,                  \* position of the outermost call
    stack,                \* the calls under way: directory and next item
    chart_files,          \* the list `files`
    discover_result       \* <<>> until the outermost call returns

timingVars == <<bms, pc, sorted, idx, current_bpm, current_section_time,
                next_section_time, previous_section, timings, walked>>

audioVars == <<buffer, sample_rate, nops, calls>>

inputVars == <<args, files, preview_was>>

probeVars == <<order, probes, rate_opt, song_length, opened>>

mixVars == <<start, end, loaded, mixed>>

encodeVars == <<encoder, eidx, taken, submitted>>

renderVars == <<inputVars, preview, rpc, result, pidx, probeVars, mixVars,
                encodeVars>>

loadVars == <<load_probe, lpc, load_result>>

treeVars == <<tree, listing>>

folderVars == <<fpc, walk, widx, explored_folders, bms_files, jobs, attempts,
                writes, folder_result>>

discoverVars == <<dpc, stack, chart_files, discover_result>>

toolVars == <<loadVars, treeVars, folderVars, discoverVars>>

vars == <<timingVars, audioVars, renderVars, toolVars>>

----------------------------------------------------------------------------
(* Bounds of the model.                                                    *)

\* Largest number of background notes of a chart.
MaxNotes == 2

\* Largest number of samples of a destination buffer.
MaxBufLen == 3

\* Largest number of calls made on one destination buffer.
MaxOps == 2

----------------------------------------------------------------------------
(* Exact arithmetic.                                                       *)

Abs(n) == IF n < 0 THEN -n ELSE n

RECURSIVE Gcd(_, _)
Gcd(a, b) == IF b = 0 THEN a ELSE Gcd(b, a % b)

\* The rational n/d (d # 0) in lowest terms with a positive denominator.
Q(n, d) ==
    LET g == Gcd(Abs(n), Abs(d))
        s == IF d < 0 THEN -1 ELSE 1
    IN  <<(s * n) \div g, (s * d) \div g>>

QInt(n) == <<n, 1>>
QAdd(a, b) == Q(a[1] * b[2] + b[1] * a[2], a[2] * b[2])
QMul(a, b) == Q(a[1] * b[1], a[2] * b[2])
QDiv(a, b) == Q(a[1] * b[2], a[2] * b[1])
QLe(a, b) == a[1] * b[2] <= b[1] * a[2]
QLt(a, b) == a[1] * b[2] < b[1] * a[2]
QSub(a, b) == QAdd(a, <<-b[1], b[2]>>)
QZero == <<0, 1>>

----------------------------------------------------------------------------
(* The chart model: bms_rs::bms::model::Bms as get_wav_timings reads it.   *)

\* ObjTime: a position (track, numerator / denominator).
ObjTime(t, n, d) == [track |-> t, numerator |-> n, denominator |-> d]

\* Ord for ObjTime: by track, then by the fraction within the track.
ObjTimeLt(a, b) ==
    \/ a.track < b.track
    \/ /\ a.track = b.track
       /\ a.numerator * b.denominator < b.numerator * a.denominator

ObjTimeLe(a, b) == ~ObjTimeLt(b, a)

\* The first key of an ordered map's key set, BTreeMap::range(..).next().
FirstKey(keys) == CHOOSE k \in keys : \A j \in keys : ObjTimeLe(k, j)

DEFAULT_BPM == 130

Tracks == {0, 1, 2}

\* Positions of the background notes of the charts walked: two tracks with
\* several notes, a track that may stay empty, positions within a track.
NoteTimes ==
    {ObjTime(0, 0, 4), ObjTime(0, 1, 2), ObjTime(0, 3, 4),
     ObjTime(1, 0, 4), ObjTime(1, 1, 2), ObjTime(2, 0, 4)}

\* Positions of the BPM changes: before and after the seed's limit (2, 0/4).
BpmChangeTimes ==
    {ObjTime(0, 0, 4), ObjTime(0, 3, 4), ObjTime(1, 0, 4), ObjTime(2, 0, 4)}

\* wav ids 1 and 2 are defined by the chart (#WAV01, #WAV02); 3 is not.
WavIds == {1, 2, 3}
WavFiles == (1 :> <<"kick.wav">>) @@ (2 :> <<"sub", "snare.wav">>)
BasePath == <<"/", "songs", "a">>

\* Path::join: an absolute argument replaces the base.
PathJoin(base, p) ==
    IF p # <<>> /\ p[1] = "/" THEN p ELSE base \o p

Notes == [offset : NoteTimes, wav_id : WavIds]

\* Sequences over S of length at most n.
RECURSIVE SeqsUpTo(_, _)
SeqsUpTo(S, n) ==
    IF n = 0 THEN {<<>>}
    ELSE LET shorter == SeqsUpTo(S, n - 1)
         IN  shorter \cup {Append(s, x) : s \in shorter, x \in S}

\* itertools sorted_by(|a, b| a.offset.cmp(&b.offset)): a stable sort.
InsertNote(s, x) ==
    LET k == Cardinality({i \in 1..Len(s) : ObjTimeLe(s[i].offset, x.offset)})
    IN  SubSeq(s, 1, k) \o <<x>> \o SubSeq(s, k + 1, Len(s))

RECURSIVE SortedByOffset(_)
SortedByOffset(s) ==
    IF s = <<>> THEN <<>>
    ELSE InsertNote(SortedByOffset(SubSeq(s, 1, Len(s) - 1)), s[Len(s)])

----------------------------------------------------------------------------
(* Charts the model walks.  Tempi and section lengths are positive, as the *)
(* parser yields them; an Option is a sequence of length 0 or 1.           *)

InitialBpms == {<<>>, <<120>>}
BpmValues == {120, 240}
SectionLens == {<<1, 2>>}

\* The maps from at most one key of K to a value of V.
SmallMaps(K, V) ==
    UNION {[D -> V] : D \in {D \in SUBSET K : Cardinality(D) <= 1}}

Charts ==
    [bpm : InitialBpms,
     bpm_changes : SmallMaps(BpmChangeTimes, BpmValues),
     section_len_changes : SmallMaps(Tracks, SectionLens),
     notes : SeqsUpTo(Notes, MaxNotes),
     wav_files : {WavFiles},
     base_path : {BasePath}]

----------------------------------------------------------------------------
(* Renderer::get_wav_timings.                                              *)

\* Decimal -> f64 of a tempo or a section length the parser accepted.
BpmToF64(b) == QInt(b)

\* renderer.rs 33-48: the initial tempo, then the first BPM change that lies
\* before track 2, if there is one.
SeedBpm(chart) ==
    LET initial == IF chart.bpm = <<>> THEN DEFAULT_BPM ELSE chart.bpm[1]
        early == {k \in DOMAIN chart.bpm_changes : ObjTimeLt(k, ObjTime(2, 0, 4))}
    IN  IF early = {} THEN BpmToF64(initial)
        ELSE BpmToF64(chart.bpm_changes[FirstKey(early)])

\* renderer.rs 63-68: the length in seconds of the note's section at the
\* tempo in force.
SectionSeconds(chart, track, bpm) ==
    LET current_section_len ==
            IF track \in DOMAIN chart.section_len_changes
            THEN chart.section_len_changes[track] ELSE QInt(1)
        section_beats == QMul(current_section_len, QInt(4))
        seconds_per_beat == QDiv(QInt(60), bpm)
    IN  QMul(section_beats, seconds_per_beat)

\* A faulty variant of BpmAfter: only a change strictly after the note counts.
BpmAfterStrict(chart, offset, bpm) ==
    LET later == {k \in DOMAIN chart.bpm_changes : ObjTimeLt(offset, k)}
    IN  IF later = {} THEN bpm ELSE BpmToF64(chart.bpm_changes[FirstKey(later)])

\* renderer.rs 79-82: the tempo after the note: that of the first BPM
\* change at or after the note's offset, if there is one.
BpmAfter(chart, offset, bpm) ==
    LET later == {k \in DOMAIN chart.bpm_changes : ObjTimeLe(offset, k)}
    IN  IF later = {} THEN bpm ELSE BpmToF64(chart.bpm_changes[FirstKey(later)])

\* A faulty variant of TimingsPush: the entry of a path is overwritten.
TimingsPushOverwrite(tm, path, t) ==
    [p \in DOMAIN tm \cup {path} |-> IF p = path THEN <<t>> ELSE tm[p]]

\* renderer.rs 90-94: push onto the path's vector, or insert a new one.
TimingsPush(tm, path, t) ==
    IF path \in DOMAIN tm
    THEN [tm EXCEPT ![path] = Append(@, t)]
    ELSE [p \in DOMAIN tm \cup {path} |-> IF p = path THEN <<t>> ELSE tm[p]]

EmptyMap == [p \in {} |-> <<>>]

TimingsIdle ==
    /\ pc = "idle" /\ sorted = <<>> /\ idx = 0
    /\ current_bpm = QInt(DEFAULT_BPM)
    /\ current_section_time = QZero /\ next_section_time = QZero
    /\ previous_section = 0 /\ timings = EmptyMap /\ walked = <<>>

\* renderer.rs 28-56: the state before the first note is visited.
Seed ==
    /\ pc = "seed"
    /\ current_bpm' = SeedBpm(bms)
    /\ current_section_time' = QZero
    /\ next_section_time' = QZero
    /\ previous_section' = 0
    /\ timings' = EmptyMap
    /\ sorted' = SortedByOffset(bms.notes)
    /\ idx' = 0
    /\ walked' = <<>>
    /\ pc' = "walk"
    /\ UNCHANGED <<bms, audioVars, renderVars, toolVars>>

\* renderer.rs 57-95: one iteration of the for_each.
WalkNote ==
    /\ pc = "walk"
    /\ idx < Len(sorted)
    /\ LET note == sorted[idx + 1]
           track == note.offset.track
           numerator == note.offset.numerator
           denominator == note.offset.denominator
           section_seconds == SectionSeconds(bms, track, current_bpm)
           advance == previous_section < track
           section_time == IF advance THEN next_section_time
                           ELSE current_section_time
           obj_offset_seconds ==
               QDiv(QMul(section_seconds, QInt(numerator)), QInt(denominator))
           obj_start_seconds == QAdd(section_time, obj_offset_seconds)
           bpm_after == BpmAfter(bms, note.offset, current_bpm)
       IN  /\ current_section_time' = section_time
           /\ previous_section' = IF advance THEN track ELSE previous_section
           /\ next_section_time' = QAdd(section_time, section_seconds)
           /\ current_bpm' = bpm_after
           /\ timings' =
                 IF note.wav_id \in DOMAIN bms.wav_files
                 THEN TimingsPush(timings,
                                  PathJoin(bms.base_path, bms.wav_files[note.wav_id]),
                                  obj_start_seconds)
                 ELSE timings
           /\ walked' = Append(walked,
                 [note |-> note, bpm |-> current_bpm,
                  section_time |-> section_time,
                  obj_start_seconds |-> obj_start_seconds])
    /\ idx' = idx + 1
    /\ UNCHANGED <<bms, pc, sorted, audioVars, renderVars, toolVars>>

\* renderer.rs 97: the map is returned.
ReturnTimings ==
    /\ pc = "walk"
    /\ idx = Len(sorted)
    /\ pc' = "done"
    /\ UNCHANGED <<bms, sorted, idx, current_bpm, current_section_time,
                   next_section_time, previous_section, timings, walked,
                   audioVars, renderVars, toolVars>>

\* No call of load is under way.
LoadIdle == load_probe = <<>> /\ lpc = "idle" /\ load_result = <<>>

\* No call of process_folder is under way.
FolderIdle ==
    /\ fpc = "idle" /\ walk = <<>> /\ widx = 0
    /\ explored_folders = {} /\ bms_files = <<>> /\ jobs = <<>>
    /\ attempts = <<>> /\ writes = <<>> /\ folder_result = <<>>

\* No call of get_bms_files is under way.
DiscoverIdle ==
    /\ dpc = "idle" /\ stack = <<>> /\ chart_files = <<>>
    /\ discover_result = <<>>

\* No songs folder is looked at.
TreeIdle == tree = {} /\ listing = <<>>

ToolsIdle == LoadIdle /\ TreeIdle /\ FolderIdle /\ DiscoverIdle

\* The chart of a Renderer that is not looked at.
IdleChart ==
    [bpm |-> <<>>, bpm_changes |-> EmptyMap, section_len_changes |-> EmptyMap,
     notes |-> <<>>, wav_files |-> WavFiles, base_path |-> BasePath]

AudioIdle ==
    /\ buffer = <<>> /\ sample_rate = 0 /\ nops = 0 /\ calls = <<>>

\* No call of process_bms_file or encode is under way.
RenderIdle ==
    /\ args = <<>> /\ files = <<>> /\ preview = <<>> /\ preview_was = <<>>
    /\ rpc = "idle" /\ result = <<>> /\ order = <<>> /\ pidx = 0
    /\ probes = <<>> /\ rate_opt = <<>> /\ song_length = QZero
    /\ start = QZero /\ end = QZero
    /\ opened = <<>> /\ loaded = <<>> /\ mixed = <<>>
    /\ encoder = <<>> /\ eidx = 0 /\ taken = 0 /\ submitted = <<>>

InitTimings ==
    /\ bms \in Charts
    /\ pc = "seed"
    /\ sorted = <<>> /\ idx = 0
    /\ current_bpm = QInt(DEFAULT_BPM)
    /\ current_section_time = QZero /\ next_section_time = QZero
    /\ previous_section = 0 /\ timings = EmptyMap /\ walked = <<>>
    /\ AudioIdle
    /\ RenderIdle
    /\ ToolsIdle

NextTimings == Seed \/ WalkNote \/ ReturnTimings

SpecTimings == InitTimings /\ [][NextTimings]_vars

----------------------------------------------------------------------------
(* Properties of get_wav_timings, checked under SpecTimings.               *)

\* The position of a note in sections: track + numerator / denominator.
Position(o) == QAdd(QInt(o.track), Q(o.numerator, o.denominator))

\* The initial tempo of the chart as a number.
InitialBpm == IF bms.bpm = <<>> THEN DEFAULT_BPM ELSE bms.bpm[1]

\* The chart has one tempo throughout and no section length but 1.
SingleTempo ==
    /\ \A k \in DOMAIN bms.bpm_changes : bms.bpm_changes[k] = InitialBpm
    /\ DOMAIN bms.section_len_changes = {}

\* C1: with a single tempo B and all section lengths 1, every background
\* note starts at (4 * 60 / B) * (track + numerator / denominator), also when
\* the first note is not in track 0 and when a track holds no note.
C1_ConstantTempoTimes ==
    (pc = "done" /\ SingleTempo) =>
        \A i \in 1..Len(walked) :
            walked[i].obj_start_seconds =
                QMul(Q(4 * 60, InitialBpm), Position(walked[i].note.offset))

\* C2: initial tempo B0, one BPM change to B1 at the start of track 1, all
\* section lengths 1, notes at the start of track 0 and of track 1: the notes
\* start at 0 and at 4 * 60 / B0 seconds (section 0 is timed with B0).
C2_TwoTempi ==
    (/\ pc = "done"
     /\ bms.bpm # <<>>
     /\ DOMAIN bms.bpm_changes = {ObjTime(1, 0, 4)}
     /\ DOMAIN bms.section_len_changes = {}
     /\ Len(sorted) = 2
     /\ sorted[1].offset = ObjTime(0, 0, 4)
     /\ sorted[2].offset = ObjTime(1, 0, 4))
    => /\ walked[1].obj_start_seconds = QZero
       /\ walked[2].obj_start_seconds = Q(4 * 60, bms.bpm[1])

\* The path a note's sound is filed under.
NotePath(n) == PathJoin(bms.base_path, bms.wav_files[n.wav_id])

KnownWav(n) == n.wav_id \in DOMAIN bms.wav_files

\* The start times, in walk order, of the visited notes filed under path p.
RECURSIVE StartsOf(_, _)
StartsOf(p, w) ==
    IF w = <<>> THEN <<>>
    ELSE LET last == w[Len(w)]
             rest == StartsOf(p, SubSeq(w, 1, Len(w) - 1))
         IN  IF KnownWav(last.note) /\ NotePath(last.note) = p
             THEN Append(rest, last.obj_start_seconds) ELSE rest

\* C3: the returned map holds exactly one start time per background note
\* whose wav_id is in wav_files, under base_path joined with the file of
\* that wav_id; a note with an unknown wav_id adds nothing; every start time
\* is >= 0.
C3_TimingMapTotal ==
    pc = "done" =>
        /\ DOMAIN timings =
               {NotePath(bms.notes[i]) :
                   i \in {j \in 1..Len(bms.notes) : KnownWav(bms.notes[j])}}
        /\ \A p \in DOMAIN timings :
               /\ Len(timings[p]) =
                      Cardinality({i \in 1..Len(bms.notes) :
                                      /\ KnownWav(bms.notes[i])
                                      /\ NotePath(bms.notes[i]) = p})
               /\ timings[p] = StartsOf(p, walked)
               /\ \A k \in 1..Len(timings[p]) : QLe(QZero, timings[p][k])
        /\ Len(walked) = Len(bms.notes)

\* C3 witness: a walk that filed two notes under one path, one of them
\* after time 0, and skipped nothing.
C3_Witness ==
    /\ pc = "done"
    /\ \E p \in DOMAIN timings :
          /\ Len(timings[p]) = 2
          /\ QLt(QZero, timings[p][2])

\* C4: start times are monotonic in musical position: a.offset <= b.offset
\* implies start(a) <= start(b), for every BPM map and section-length map
\* with positive entries.
C4_Monotonic ==
    pc = "done" =>
        \A i, j \in 1..Len(walked) :
            ObjTimeLe(walked[i].note.offset, walked[j].note.offset) =>
                QLe(walked[i].obj_start_seconds, walked[j].obj_start_seconds)

----------------------------------------------------------------------------
(* f32 samples: rationals, and the IEEE values a division by zero yields.  *)

NaN == <<0, 0>>
Sgn(n) == IF n < 0 THEN -1 ELSE IF n > 0 THEN 1 ELSE 0
Min(a, b) == IF a < b THEN a ELSE b
Max(a, b) == IF a < b THEN b ELSE a

IsFinite(x) == x[2] # 0

\* i as f32 / n as f32 for integers i and n.
FDiv(i, n) == IF n = 0 THEN <<Sgn(i), 0>> ELSE Q(i, n)

FAdd(a, b) ==
    IF IsFinite(a) /\ IsFinite(b) THEN QAdd(a, b)
    ELSE IF a = NaN \/ b = NaN THEN NaN
    ELSE IF ~IsFinite(a) /\ ~IsFinite(b) THEN (IF a = b THEN a ELSE NaN)
    ELSE IF IsFinite(a) THEN b ELSE a

FMul(a, b) ==
    IF IsFinite(a) /\ IsFinite(b) THEN QMul(a, b)
    ELSE IF a[1] = 0 \/ b[1] = 0 THEN NaN
    ELSE <<Sgn(a[1]) * Sgn(b[1]), 0>>

\* stereo_audio.rs 45-50: StereoSample.
StereoSample(l, r) == [left |-> l, right |-> r]

\* stereo_audio.rs 109-124: impl Add / AddAssign for StereoSample.
SampleAdd(a, b) == StereoSample(FAdd(a.left, b.left), FAdd(a.right, b.right))

\* stereo_audio.rs 126-140: impl Mul<f32> / MulAssign<f32> for StereoSample.
SampleMul(a, rhs) == StereoSample(FMul(a.left, rhs), FMul(a.right, rhs))

----------------------------------------------------------------------------
(* StereoAudio: time_to_samples, add, fade.                                *)

\* A faulty variant of TimeToSamples: the product is rounded down.
TimeToSamplesFloor(rate, time) ==
    LET p == QMul(time, QInt(rate)) IN p[1] \div p[2]

\* stereo_audio.rs 453-455: (time * sample_rate as f64) as isize; the cast
\* drops the fraction, rounding toward zero.
TimeToSamples(rate, time) ==
    LET p == QMul(time, QInt(rate))
    IN  IF p[1] >= 0 THEN p[1] \div p[2] ELSE -((-p[1]) \div p[2])

\* A faulty variant of ZipAdd: the destination sample is overwritten.
ZipAssign(dst, dst_offset, src, src_offset) ==
    [j \in 1..Len(dst) |->
        IF j > dst_offset /\ j - dst_offset <= Len(src) - src_offset
        THEN src[src_offset + (j - dst_offset)]
        ELSE dst[j]]

\* A faulty variant of ZipAdd: the destination grows to hold all of the
\* source.
ZipAddExtending(dst, dst_offset, src, src_offset) ==
    [j \in 1..Max(Len(dst), dst_offset + Len(src) - src_offset) |->
        LET old == IF j <= Len(dst) THEN dst[j]
                   ELSE StereoSample(QZero, QZero)
        IN  IF j > dst_offset /\ j - dst_offset <= Len(src) - src_offset
            THEN SampleAdd(old, src[src_offset + (j - dst_offset)])
            ELSE old]

\* stereo_audio.rs 348-353: self.buffer[dst_offset..] zipped with
\* rhs.buffer[src_offset..], *left += *right; the zip ends with the shorter.
ZipAdd(dst, dst_offset, src, src_offset) ==
    [j \in 1..Len(dst) |->
        IF j > dst_offset /\ j - dst_offset <= Len(src) - src_offset
        THEN SampleAdd(dst[j], src[src_offset + (j - dst_offset)])
        ELSE dst[j]]

\* stereo_audio.rs 329-345 of add: the offsets, and the early return.
AddAtOffset(buf, rate, rhs, offset) ==
    LET raw_offset == TimeToSamples(rate, offset)
        abs == Abs(raw_offset)
    IN  IF raw_offset >= 0 /\ abs < Len(buf)
        THEN [result |-> "Ok", buffer |-> ZipAdd(buf, abs, rhs.buffer, 0)]
        ELSE IF raw_offset < 0 /\ abs < Len(rhs.buffer)
        THEN [result |-> "Ok", buffer |-> ZipAdd(buf, 0, rhs.buffer, abs)]
        ELSE [result |-> "Ok", buffer |-> buf]

\* A faulty variant of AddAudio: the sample rates are not compared.
AddAudioAnyRate(buf, rate, rhs, offset) == AddAtOffset(buf, rate, rhs, offset)

\* stereo_audio.rs 323-356: StereoAudio::add.
AddAudio(buf, rate, rhs, offset) ==
    IF rate # rhs.sample_rate
    THEN [result |-> "MismatchedSampleRate", buffer |-> buf]
    ELSE AddAtOffset(buf, rate, rhs, offset)

\* stereo_audio.rs 303-320: the two loops of fade.  Each zip ends with the
\* shorter of the buffer and the range; both loops divide by in_samples.
FadeSamples(buf, in_samples, out_samples) ==
    LET len == Len(buf)
        nin == Min(len, Max(in_samples, 0))
        nout == Min(len, Max(out_samples, 0))
        afterIn == [j \in 1..len |->
                       IF j - 1 < nin
                       THEN SampleMul(buf[j], FDiv(j - 1, in_samples))
                       ELSE buf[j]]
        afterOut == [j \in 1..len |->
                        IF len - j < nout
                        THEN SampleMul(afterIn[j], FDiv(len - j, in_samples))
                        ELSE afterIn[j]]
    IN  [buffer |-> afterOut,
         ratios |->
            [k \in 1..nin |->
                [phase |-> "in", sample |-> k - 1,
                 num |-> k - 1, den |-> in_samples]]
            \o
            [k \in 1..nout |->
                [phase |-> "out", sample |-> len - k,
                 num |-> k - 1, den |-> in_samples]]]

\* A faulty variant of FadeAudio: the fade lengths are clamped to the buffer.
FadeAudioClamped(buf, rate, fade_in_time, fade_out_time) ==
    FadeSamples(buf,
                Min(Len(buf), TimeToSamples(rate, fade_in_time)),
                Min(Len(buf), TimeToSamples(rate, fade_out_time)))

\* stereo_audio.rs 298-321: StereoAudio::fade.
FadeAudio(buf, rate, fade_in_time, fade_out_time) ==
    FadeSamples(buf,
                TimeToSamples(rate, fade_in_time),
                TimeToSamples(rate, fade_out_time))

----------------------------------------------------------------------------
(* Calls on a destination buffer.                                          *)

DestRates == {2}

\* Destinations: a ramp (1,-1), (2,-2), ... or all (1, 1).
DestBuffers ==
    {[j \in 1..n |-> StereoSample(QInt(j), QInt(-j))] : n \in 1..MaxBufLen}
    \cup {[j \in 1..n |-> StereoSample(QInt(1), QInt(1))] : n \in 1..MaxBufLen}

\* A source of n samples (10, -1), (20, -2), ... at rate r.
Source(n, r) ==
    [buffer |-> [k \in 1..n |-> StereoSample(QInt(10 * k), QInt(-k))],
     sample_rate |-> r]

\* Sources: every length at the destination's rate, and one at another rate.
Sources == {Source(n, 2) : n \in 1..MaxBufLen} \cup {Source(2, 4)}

\* Offsets in seconds; at 2 Hz they are -3, -1.5, -1, -0.5, 0, 0.5, 1, 4 samples.
Offsets ==
    {Q(-3, 2), Q(-3, 4), Q(-1, 2), Q(-1, 4), Q(0, 1), Q(1, 4), Q(1, 2), Q(2, 1)}

\* Fade times in seconds; at 2 Hz they are 0, 1, 2 and 6 samples.
FadeTimes == {Q(0, 1), Q(1, 2), Q(1, 1), Q(3, 1)}

\* render.add(&audio, offset)
Add(rhs, offset) ==
    /\ pc = "idle"
    /\ nops < MaxOps
    /\ LET r == AddAudio(buffer, sample_rate, rhs, offset)
       IN  /\ buffer' = r.buffer
           /\ calls' = Append(calls,
                 [op |-> "add", before |-> buffer, rhs |-> rhs,
                  offset |-> offset, result |-> r.result])
    /\ nops' = nops + 1
    /\ UNCHANGED <<sample_rate, timingVars, renderVars, toolVars>>

\* render.fade(fade_in, fade_out)
Fade(fade_in_time, fade_out_time) ==
    /\ pc = "idle"
    /\ nops < MaxOps
    /\ LET r == FadeAudio(buffer, sample_rate, fade_in_time, fade_out_time)
       IN  /\ buffer' = r.buffer
           /\ calls' = Append(calls,
                 [op |-> "fade", before |-> buffer,
                  fade_in |-> fade_in_time, fade_out |-> fade_out_time,
                  ratios |-> r.ratios])
    /\ nops' = nops + 1
    /\ UNCHANGED <<sample_rate, timingVars, renderVars, toolVars>>

InitAudio ==
    /\ buffer \in DestBuffers
    /\ sample_rate \in DestRates
    /\ nops = 0
    /\ calls = <<>>
    /\ bms \in {c \in Charts : c.bpm = <<>> /\ c.notes = <<>>
                    /\ DOMAIN c.bpm_changes = {}
                    /\ DOMAIN c.section_len_changes = {}}
    /\ TimingsIdle
    /\ ToolsIdle
    /\ RenderIdle

NextAudio ==
    \/ \E rhs \in Sources, offset \in Offsets : Add(rhs, offset)
    \/ \E fi \in FadeTimes, fo \in FadeTimes : Fade(fi, fo)

SpecAudio == InitAudio /\ [][NextAudio]_vars

----------------------------------------------------------------------------
(* Properties of StereoAudio::add and fade, checked under SpecAudio.       *)

\* The destination buffer as call k left it.
After(k) == IF k < Len(calls) THEN calls[k + 1].before ELSE buffer

AddCalls == {k \in 1..Len(calls) : calls[k].op = "add"}
FadeCalls == {k \in 1..Len(calls) : calls[k].op = "fade"}

\* offset_seconds * sample_rate of an add call, as a rational.
RawProduct(c) == QMul(c.offset, QInt(sample_rate))

\* `after` is `before` with src[src_offset + i] added into
\* before[dst_offset + i] for exactly the i in
\* 0 .. min(len(before) - dst_offset, len(src) - src_offset) - 1.
MixedAt(before, dst_offset, src, src_offset, after) ==
    LET n == Min(Len(before) - dst_offset, Len(src) - src_offset)
    IN  /\ Len(after) = Len(before)
        /\ \A i \in 0..(Len(before) - 1) :
               after[i + 1] =
                   IF dst_offset <= i /\ i < dst_offset + n
                   THEN SampleAdd(before[i + 1], src[src_offset + (i - dst_offset) + 1])
                   ELSE before[i + 1]

\* The effect the specification gives add for a sample offset raw.
AddsAsSpecified(raw, c, after) ==
    /\ c.result = "Ok"
    /\ IF 0 <= raw /\ raw < Len(c.before)
       THEN MixedAt(c.before, raw, c.rhs.buffer, 0, after)
       ELSE IF raw < 0 /\ -raw < Len(c.rhs.buffer)
       THEN MixedAt(c.before, 0, c.rhs.buffer, -raw, after)
       ELSE after = c.before

\* C5 as claimed: with equal sample rates add mixes at
\* raw = floor(offset_seconds * sample_rate), trimming the head of the source
\* when raw < 0, and writes nothing in every other case.
C5_AddAtFloor ==
    \A k \in AddCalls :
        calls[k].rhs.sample_rate = sample_rate =>
            AddsAsSpecified(RawProduct(calls[k])[1] \div RawProduct(calls[k])[2],
                            calls[k], After(k))

\* The product offset_seconds * sample_rate with its fraction dropped.
TowardZero(q) == Sgn(q[1]) * (Abs(q[1]) \div q[2])

\* C5 as amended: with equal sample rates add mixes at raw =
\* offset_seconds * sample_rate rounded toward zero (not down), trimming the
\* head of the source when raw < 0, and writes nothing in every other case.
C5_AddAtTruncation ==
    \A k \in AddCalls :
        calls[k].rhs.sample_rate = sample_rate =>
            AddsAsSpecified(TowardZero(RawProduct(calls[k])), calls[k], After(k))

\* C5 witness: an add at a negative, fractional sample offset that trimmed the
\* head of its source and wrote into the destination.
C5_Witness ==
    \E k \in AddCalls :
        /\ calls[k].rhs.sample_rate = sample_rate
        /\ RawProduct(calls[k])[1] < 0
        /\ RawProduct(calls[k])[2] # 1
        /\ TowardZero(RawProduct(calls[k])) < 0
        /\ After(k) # calls[k].before

\* The source with every sample doubled.
Doubled(rhs) ==
    [rhs EXCEPT !.buffer =
        [k \in 1..Len(rhs.buffer) |-> SampleMul(rhs.buffer[k], QInt(2))]]

\* C6: add is linear: buf.add(other, t) twice leaves buf as one add of the
\* source with every sample doubled at the same offset t.
C6_AddLinear ==
    \A k \in AddCalls :
        (/\ k + 1 \in AddCalls
         /\ calls[k + 1].rhs = calls[k].rhs
         /\ calls[k + 1].offset = calls[k].offset)
        => After(k + 1) =
               AddAudio(calls[k].before, sample_rate,
                        Doubled(calls[k].rhs), calls[k].offset).buffer

\* C6 witness: the same add made twice, trimming the source, each time
\* changing the destination.
C6_Witness ==
    \E k \in AddCalls :
        /\ k + 1 \in AddCalls
        /\ calls[k + 1].rhs = calls[k].rhs
        /\ calls[k + 1].offset = calls[k].offset
        /\ TowardZero(RawProduct(calls[k])) < 0
        /\ After(k) # calls[k].before
        /\ After(k + 1) # After(k)

\* C7: add fails with MismatchedSampleRate whenever the sample rates differ,
\* for every offset, and leaves the destination unchanged.
C7_MismatchedSampleRate ==
    \A k \in AddCalls :
        calls[k].rhs.sample_rate # sample_rate =>
            /\ calls[k].result = "MismatchedSampleRate"
            /\ After(k) = calls[k].before

\* C7 witness: an add across sample rates at an offset inside the destination.
C7_Witness ==
    \E k \in AddCalls :
        /\ calls[k].rhs.sample_rate # sample_rate
        /\ calls[k].offset = QZero
        /\ calls[k].result = "MismatchedSampleRate"

\* The numbers of samples of the two fades of a call.
NIn(c) == TowardZero(QMul(c.fade_in, QInt(sample_rate)))
NOut(c) == TowardZero(QMul(c.fade_out, QInt(sample_rate)))

\* Sample i of `before`, faded in over n_in and out over n_out samples.
FadedSample(before, i, n_in, n_out) ==
    LET len == Len(before)
        gain_in == IF i < n_in THEN FDiv(i, n_in) ELSE QInt(1)
        gain_out == IF len - 1 - i < n_out THEN FDiv(len - 1 - i, n_out) ELSE QInt(1)
    IN  SampleMul(SampleMul(before[i + 1], gain_in), gain_out)

\* C8: fade multiplies sample i (i < n_in) by i / n_in and the sample at
\* distance i from the end (i < n_out) by i / n_out; other samples are
\* unchanged.
C8_FadeGains ==
    \A k \in FadeCalls :
        /\ Len(After(k)) = Len(calls[k].before)
        /\ \A i \in 0..(Len(calls[k].before) - 1) :
               After(k)[i + 1] =
                   FadedSample(calls[k].before, i, NIn(calls[k]), NOut(calls[k]))

\* C9: a fade of zero samples is skipped, and every gain fade applies is a
\* ratio with a non-zero denominator that lies in [0, 1].
C9_FadeRatios ==
    \A k \in FadeCalls :
        LET c == calls[k]
        IN  /\ NIn(c) = 0 =>
                   \A r \in 1..Len(c.ratios) : c.ratios[r].phase # "in"
            /\ NOut(c) = 0 =>
                   \A r \in 1..Len(c.ratios) : c.ratios[r].phase # "out"
            /\ \A r \in 1..Len(c.ratios) :
                   /\ c.ratios[r].den # 0
                   /\ 0 <= c.ratios[r].num
                   /\ c.ratios[r].num <= c.ratios[r].den

\* C10 as claimed: a fade longer than the buffer is clamped to the buffer
\* length, so sample i is faded by i / len; overlapping fades both apply.
\* (Stated for fades of equal length, where the divisor of the fade-out
\* loop, the subject of C8, is that of the fade-in loop.)
C10_FadeClamped ==
    \A k \in FadeCalls :
        LET c == calls[k]
            len == Len(c.before)
        IN  (NIn(c) > len /\ NOut(c) = NIn(c)) =>
                \A i \in 0..(len - 1) :
                    After(k)[i + 1] =
                        FadedSample(c.before, i, Min(NIn(c), len), Min(NOut(c), len))

\* The gain the fade-out loop of call c applied to sample i (1 if none).
OutGain(c, i) ==
    LET hits == {r \in 1..Len(c.ratios) :
                    c.ratios[r].phase = "out" /\ c.ratios[r].sample = i}
    IN  IF hits = {} THEN QInt(1)
        ELSE LET r == CHOOSE r \in hits : TRUE
             IN  FDiv(c.ratios[r].num, c.ratios[r].den)

\* C10 as amended: a fade-in longer than the buffer is not clamped: it fades
\* every sample i of the buffer by i / n_in, so it reaches (len - 1) / n_in
\* at its far end, not (len - 1) / len; where the fade-out overlaps it both
\* gains apply.
C10_FadeInUnclamped ==
    \A k \in FadeCalls :
        LET c == calls[k]
            len == Len(c.before)
        IN  NIn(c) > len =>
                \A i \in 0..(len - 1) :
                    After(k)[i + 1] =
                        SampleMul(SampleMul(c.before[i + 1], Q(i, NIn(c))),
                                  OutGain(c, i))

\* C10 witness: a fade-in and a fade-out, both longer than the buffer, on a
\* buffer of more than one sample.
C10_Witness ==
    \E k \in FadeCalls :
        /\ NIn(calls[k]) > Len(calls[k].before)
        /\ NOut(calls[k]) > Len(calls[k].before)
        /\ Len(calls[k].before) > 1
        /\ After(k) # calls[k].before

----------------------------------------------------------------------------
(* StereoAudio: new, attenuate, encode.                                    *)

STEREO_CHANNELS == 2
ENCODING_CHUNK_SIZE == 1024

\* Largest number of whole chunks of a buffer handed to encode directly.
MaxWholeChunks == 2

\* StereoSample::default().
Silence == StereoSample(QZero, QZero)

\* f64 as usize: the fraction is dropped; a negative value gives 0.
AsUsize(q) == IF q[1] <= 0 THEN 0 ELSE q[1] \div q[2]

\* The least integer >= q.
Ceil(q) == -((-q[1]) \div q[2])

\* A faulty variant of NewAudio: the number of samples is rounded up.
NewAudioCeil(length, rate) ==
    LET samples == QMul(QMul(length, QInt(STEREO_CHANNELS)), QInt(rate))
    IN  [buffer |-> [j \in 1..(Max(Ceil(samples), 0) + 1) |-> Silence],
         sample_rate |-> rate]

\* stereo_audio.rs 144-151: StereoAudio::new.
NewAudio(length, rate) ==
    LET samples == QMul(QMul(length, QInt(STEREO_CHANNELS)), QInt(rate))
    IN  [buffer |-> [j \in 1..(AsUsize(samples) + 1) |-> Silence],
         sample_rate |-> rate]

\* A faulty variant of Attenuate: a volume of 1 or more does nothing.
AttenuateClamped(buf, volume) ==
    IF QLe(QInt(1), volume) THEN buf
    ELSE [j \in 1..Len(buf) |-> SampleMul(buf[j], volume)]

\* stereo_audio.rs 358-368: StereoAudio::attenuate.
Attenuate(buf, volume) ==
    IF volume = QInt(1) THEN buf
    ELSE [j \in 1..Len(buf) |-> SampleMul(buf[j], volume)]

\* stereo_audio.rs 384-396: the items of the iterator `left` or `right`: one
\* channel of the buffer, chained with missing_samples zeros.
EncodeChannel(buf, side) ==
    LET missing_samples == Len(buf) % ENCODING_CHUNK_SIZE
    IN  [j \in 1..(Len(buf) + missing_samples) |->
            IF j <= Len(buf)
            THEN (IF side = "left" THEN buf[j].left ELSE buf[j].right)
            ELSE QZero]

\* itertools next_array::<ENCODING_CHUNK_SIZE>() on an iterator that has
\* yielded n of its items: the next ENCODING_CHUNK_SIZE items, or None when
\* fewer are left.
NextArray(items, n) ==
    IF n + ENCODING_CHUNK_SIZE <= Len(items)
    THEN <<SubSeq(items, n + 1, n + ENCODING_CHUNK_SIZE)>>
    ELSE <<>>

\* stereo_audio.rs 400: the iterations of (0..len).step_by(ENCODING_CHUNK_SIZE).
EncodeIterations(len) == (len + ENCODING_CHUNK_SIZE - 1) \div ENCODING_CHUNK_SIZE

\* A faulty variant of MonoBlock: the left channel alone.
MonoBlockLeft(left_chunk, right_chunk) == <<left_chunk>>

\* stereo_audio.rs 416-421: the block of a mono encode, (lhs + rhs) / 2.0.
MonoBlock(left_chunk, right_chunk) ==
    <<[i \in 1..Len(left_chunk) |->
          FMul(FAdd(left_chunk[i], right_chunk[i]), Q(1, 2))]>>

\* stereo_audio.rs 410-425: the block handed to encode_audio_block.
Block(mono, left_chunk, right_chunk) ==
    IF ~mono THEN <<left_chunk, right_chunk>>
    ELSE MonoBlock(left_chunk, right_chunk)

\* The file File::create leaves at a path, and the file an earlier run left.
CreatedFile == [origin |-> "encode", blocks |-> 0, finished |-> FALSE]
EarlierFile == [origin |-> "earlier", blocks |-> 0, finished |-> TRUE]

\* The defaults of Args (bms_preview.rs 12-68), as process_bms_file reads them.
DefaultArgs ==
    [start |-> QInt(20), end |-> QInt(40), start_p |-> <<>>, end_p |-> <<>>,
     fade_in |-> QInt(2), fade_out |-> QInt(2),
     preview_file |-> <<"preview_auto_generated.ogg">>,
     mono_audio |-> FALSE, sample_rate |-> <<>>, volume |-> QInt(100),
     overwrite |-> TRUE, parallel |-> TRUE]

\* stereo_audio.rs 372-380: the file is created, then the encoder is built.
\* File::create and the encoder builder succeed or fail as the system and
\* the library decide.
EncodeOpen ==
    /\ rpc = "open"
    /\ \E outcome \in {"IOError", "VorbisError", "Ok"} :
          IF outcome = "IOError"
          THEN /\ preview' = preview
               /\ result' = <<"IOError">>
               /\ rpc' = "returned"
               /\ encoder' = <<>>
          ELSE /\ preview' = <<CreatedFile>>
               /\ IF sample_rate = 0
                  THEN /\ result' = <<"InvalidCodecInfo">>
                       /\ rpc' = "returned"
                       /\ encoder' = <<>>
                  ELSE IF outcome = "VorbisError"
                  THEN /\ result' = <<"VorbisError">>
                       /\ rpc' = "returned"
                       /\ encoder' = <<>>
                  ELSE /\ result' = result
                       /\ rpc' = "chunks"
                       /\ encoder' =
                             <<[sample_rate |-> sample_rate,
                                channels |-> IF args.mono_audio THEN 1 ELSE 2]>>
    /\ eidx' = 0 /\ taken' = 0 /\ submitted' = <<>>
    /\ UNCHANGED <<timingVars, audioVars, inputVars, toolVars, pidx, probeVars, mixVars>>

\* stereo_audio.rs 400-426: one iteration of the loop of encode.
EncodeChunk ==
    /\ rpc = "chunks"
    /\ eidx < EncodeIterations(Len(buffer))
    /\ LET left == EncodeChannel(buffer, "left")
           right == EncodeChannel(buffer, "right")
           left_chunk == NextArray(left, taken)
           right_chunk == NextArray(right, taken)
       IN  IF left_chunk = <<>> \/ right_chunk = <<>>
           THEN /\ taken' = Len(left)
                /\ UNCHANGED <<submitted, preview, result, rpc>>
           ELSE /\ taken' = taken + ENCODING_CHUNK_SIZE
                /\ \E ok \in BOOLEAN :
                      IF ok
                      THEN /\ submitted' =
                                Append(submitted,
                                       Block(args.mono_audio,
                                             left_chunk[1], right_chunk[1]))
                           /\ preview' =
                                <<[preview[1] EXCEPT !.blocks = @ + 1]>>
                           /\ UNCHANGED <<result, rpc>>
                      ELSE /\ result' = <<"VorbisError">>
                           /\ rpc' = "returned"
                           /\ UNCHANGED <<submitted, preview>>
    /\ eidx' = eidx + 1
    /\ UNCHANGED <<timingVars, audioVars, inputVars, toolVars, encoder, pidx, probeVars,
                   mixVars>>

\* stereo_audio.rs 428: the loop is over, encode returns Ok and the encoder
\* is dropped, which ends the stream.
EncodeReturn ==
    /\ rpc = "chunks"
    /\ eidx = EncodeIterations(Len(buffer))
    /\ result' = <<"Ok">>
    /\ rpc' = "returned"
    /\ preview' = <<[preview[1] EXCEPT !.finished = TRUE]>>
    /\ UNCHANGED <<timingVars, audioVars, inputVars, toolVars, encodeVars, pidx,
                   probeVars, mixVars>>

\* Buffer lengths around the whole chunks.
EncodeLens ==
    {k * ENCODING_CHUNK_SIZE + r :
        k \in 0..MaxWholeChunks, r \in {0, 1, 511, 512, 1023}}

\* Buffers handed to encode: a ramp (1, -1), (2, -3), (3, -5), ... and the
\* constant (1, -1).
EncodeBuffers ==
    {[j \in 1..n |-> StereoSample(QInt(j), QInt(1 - 2 * j))] : n \in EncodeLens}
    \cup {[j \in 1..n |-> StereoSample(QInt(1), QInt(-1))] : n \in EncodeLens}

EncodeRates == {0, 48000}

InitEncode ==
    /\ buffer \in EncodeBuffers
    /\ sample_rate \in EncodeRates
    /\ nops = 0 /\ calls = <<>>
    /\ args \in {[DefaultArgs EXCEPT !.mono_audio = m] : m \in BOOLEAN}
    /\ files = <<>>
    /\ preview \in {<<>>, <<EarlierFile>>}
    /\ preview_was = preview
    /\ rpc = "open" /\ result = <<>> /\ order = <<>> /\ pidx = 0
    /\ probes = <<>> /\ rate_opt = <<>> /\ song_length = QZero
    /\ start = QZero /\ end = QZero
    /\ opened = <<>> /\ loaded = <<>> /\ mixed = <<>>
    /\ encoder = <<>> /\ eidx = 0 /\ taken = 0 /\ submitted = <<>>
    /\ bms \in {c \in Charts : c.bpm = <<>> /\ c.notes = <<>>
                    /\ DOMAIN c.bpm_changes = {}
                    /\ DOMAIN c.section_len_changes = {}}
    /\ TimingsIdle
    /\ ToolsIdle

NextEncode == EncodeOpen \/ EncodeChunk \/ EncodeReturn

SpecEncode == InitEncode /\ [][NextEncode]_vars

----------------------------------------------------------------------------
(* Properties of StereoAudio::encode, checked under SpecEncode.            *)

\* The number of blocks of ENCODING_CHUNK_SIZE frames that hold len frames.
ChunksFor(len) == (len + ENCODING_CHUNK_SIZE - 1) \div ENCODING_CHUNK_SIZE

\* Frame i (from 1) of channel ch of block b, as submitted.
SubmittedAt(b, ch, i) == submitted[b][ch][i]

\* C13: encode pads the buffer with zeros to a multiple of 1024 and encodes
\* all of it: for a buffer of len samples it submits ceil(len / 1024) blocks
\* of 1024 frames, buffer sample p is frame p of the blocks laid end to end,
\* and the frames after the buffer are zeros; no tail is dropped.
C13_EncodesWholeBuffer ==
    (rpc = "returned" /\ result = <<"Ok">>) =>
        /\ Len(submitted) = ChunksFor(Len(buffer))
        /\ \A b \in 1..Len(submitted) :
               /\ Len(submitted[b][1]) = ENCODING_CHUNK_SIZE
               /\ ~args.mono_audio => \A i \in 1..ENCODING_CHUNK_SIZE :
                      LET p == (b - 1) * ENCODING_CHUNK_SIZE + i
                      IN  IF p <= Len(buffer)
                          THEN /\ SubmittedAt(b, 1, i) = buffer[p].left
                               /\ SubmittedAt(b, 2, i) = buffer[p].right
                          ELSE /\ SubmittedAt(b, 1, i) = QZero
                               /\ SubmittedAt(b, 2, i) = QZero

\* C14: the encoder is built with the buffer's sample rate and with 1
\* channel when mono and 2 otherwise; in mono every submitted frame is
\* (left + right) / 2 of the buffer sample at its position, in stereo the
\* left and right frames are those of the buffer sample; a frame past the
\* buffer is a zero.
C14_EncoderChannels ==
    /\ encoder # <<>> =>
          /\ encoder[1].sample_rate = sample_rate
          /\ encoder[1].channels = IF args.mono_audio THEN 1 ELSE 2
    /\ \A b \in 1..Len(submitted) :
          /\ Len(submitted[b]) = IF args.mono_audio THEN 1 ELSE 2
          /\ \A ch \in 1..Len(submitted[b]) :
                Len(submitted[b][ch]) = ENCODING_CHUNK_SIZE
          /\ \A i \in 1..ENCODING_CHUNK_SIZE :
                LET p == (b - 1) * ENCODING_CHUNK_SIZE + i
                    s == IF p <= Len(buffer) THEN buffer[p] ELSE Silence
                IN  IF args.mono_audio
                    THEN SubmittedAt(b, 1, i) =
                             QDiv(QAdd(s.left, s.right), QInt(2))
                    ELSE /\ SubmittedAt(b, 1, i) = s.left
                         /\ SubmittedAt(b, 2, i) = s.right

\* C14 witness: a mono encode that submitted a block in which a sample with
\* left = 1, right = -1 became 0 and another sample did not.
C14_Witness ==
    /\ args.mono_audio
    /\ rpc = "returned" /\ result = <<"Ok">>
    /\ Len(submitted) >= 1
    /\ buffer[1] = StereoSample(QInt(1), QInt(-1))
    /\ SubmittedAt(1, 1, 1) = QZero
    /\ SubmittedAt(1, 1, 2) # QZero

----------------------------------------------------------------------------
(* Audio files as Probe and StereoAudio::load see them.                    *)

\* Path::with_extension for the file names of the model.
ExtensionTable ==
    ("kick.wav" :> [wav |-> "kick.wav", ogg |-> "kick.ogg", mp3 |-> "kick.mp3"])
    @@ ("snare.wav" :>
           [wav |-> "snare.wav", ogg |-> "snare.ogg", mp3 |-> "snare.mp3"])

WithExtension(path, ext) ==
    SubSeq(path, 1, Len(path) - 1) \o <<ExtensionTable[path[Len(path)]][ext]>>

\* stereo_audio.rs 29-43: the path itself if it exists, else the first of
\* the extensions wav, ogg, mp3 under which a file exists.
GetAudioFuzzy(fs, path) ==
    IF path \in DOMAIN fs THEN <<path>>
    ELSE IF WithExtension(path, "wav") \in DOMAIN fs
    THEN <<WithExtension(path, "wav")>>
    ELSE IF WithExtension(path, "ogg") \in DOMAIN fs
    THEN <<WithExtension(path, "ogg")>>
    ELSE IF WithExtension(path, "mp3") \in DOMAIN fs
    THEN <<WithExtension(path, "mp3")>>
    ELSE <<>>

\* stereo_audio.rs 68-95: Probe::new; <<>> stands for an Err.
ProbeNew(fs, fuzzy_path) ==
    LET found == GetAudioFuzzy(fs, fuzzy_path)
    IN  IF found = <<>> THEN <<>>
        ELSE IF ~fs[found[1]].recognised THEN <<>>
        ELSE <<[path |-> found[1], track |-> fs[found[1]]]>>

\* The fractional part of a rational >= 0 (Time::frac).
Frac(q) == Q(q[1] % q[2], q[2])

\* stereo_audio.rs 98-105: Probe::get_length: the `frac` field of
\* time_base.calc_time(n_frames).
GetLength(probe) ==
    IF probe.track.n_frames = <<>> \/ probe.track.time_base = <<>> THEN <<>>
    ELSE <<Frac(QMul(QInt(probe.track.n_frames[1]), probe.track.time_base[1]))>>

\* stereo_audio.rs 212-227: the interleaved samples of a packet as stereo
\* samples; a mono sample goes to both channels.
PacketSamples(samples, channels) ==
    [k \in 1..(Len(samples) \div channels) |->
        LET i == (k - 1) * channels + 1
        IN  IF channels = 1 THEN StereoSample(samples[i], samples[i])
            ELSE StereoSample(samples[i], samples[i + 1])]

\* A faulty variant of DecodePackets: a DecodeError ends the decoding.
RECURSIVE DecodePacketsStopping(_, _, _)
DecodePacketsStopping(packets, track_id, channels) ==
    IF packets = <<>> THEN <<>>
    ELSE LET packet == Head(packets)
         IN  IF packet.read # "Ok" THEN <<>>
             ELSE IF packet.track_id # track_id
             THEN DecodePacketsStopping(Tail(packets), track_id, channels)
             ELSE IF packet.decode = "Ok"
             THEN PacketSamples(packet.samples, channels)
                      \o DecodePacketsStopping(Tail(packets), track_id, channels)
             ELSE <<>>

\* stereo_audio.rs 179-233: the loop of load over the items next_packet
\* yields: a read error (the end of the stream is one) ends the loop.
RECURSIVE DecodePackets(_, _, _)
DecodePackets(packets, track_id, channels) ==
    IF packets = <<>> THEN <<>>
    ELSE LET packet == Head(packets)
         IN  IF packet.read # "Ok" THEN <<>>
             ELSE IF packet.track_id # track_id
             THEN DecodePackets(Tail(packets), track_id, channels)
             ELSE IF packet.decode = "Ok"
             THEN PacketSamples(packet.samples, channels)
                      \o DecodePackets(Tail(packets), track_id, channels)
             ELSE IF packet.decode = "DecodeError"
             THEN DecodePackets(Tail(packets), track_id, channels)
             ELSE <<>>

\* stereo_audio.rs 154-239: StereoAudio::load; <<>> stands for an Err.
LoadAudio(probe) ==
    IF probe.track.channels = <<>> \/ probe.track.sample_rate = <<>> THEN <<>>
    ELSE IF ~probe.track.decoder THEN <<>>
    ELSE <<[buffer |-> DecodePackets(probe.track.packets, probe.track.id,
                                     probe.track.channels[1]),
            sample_rate |-> probe.track.sample_rate[1]]>>

\* stereo_audio.rs 242-296: resample.  The resampler is a library; the model
\* gives its output the length len * desired / rate (rounded up) and holds
\* each input sample over the output samples it covers.
Resampled(audio, desired_rate) ==
    [buffer |->
        [j \in 1..Ceil(Q(Len(audio.buffer) * desired_rate, audio.sample_rate)) |->
            audio.buffer[((j - 1) * audio.sample_rate) \div desired_rate + 1]],
     sample_rate |-> desired_rate]

\* A faulty variant of MatchSampleRate: the audio is never resampled.
MatchSampleRateKeep(audio, rate, probe) == <<audio>>

\* stereo_audio.rs 432-438: match_sample_rate; <<>> stands for an Err of the
\* resampler, which the file's track decides.
MatchSampleRate(audio, rate, probe) ==
    IF audio.sample_rate = rate THEN <<audio>>
    ELSE IF ~probe.track.resamples THEN <<>>
    ELSE <<Resampled(audio, rate)>>

----------------------------------------------------------------------------
(* Renderer::process_bms_file.                                             *)

\* A faulty variant of SkipsRender: an existing file never stops the render.
SkipsRenderDeclared(chart, a, exists) == chart.preview_music # <<>>

\* renderer.rs 103-109: the two early returns.
SkipsRender(chart, a, exists) ==
    \/ chart.preview_music # <<>>
    \/ ~a.overwrite /\ exists

QMax(a, b) == IF QLt(a, b) THEN b ELSE a

\* renderer.rs 138-140: song_length.max(time + length) over the times.
RECURSIVE SongLength(_, _, _)
SongLength(song_len, time_vec, length) ==
    IF time_vec = <<>> THEN song_len
    ELSE SongLength(QMax(song_len, QAdd(Head(time_vec), length)),
                    Tail(time_vec), length)

\* A faulty variant of AdoptRate: a later file's rate replaces the rate.
AdoptRateLast(rate, probe) ==
    IF probe.track.sample_rate # <<>> THEN probe.track.sample_rate ELSE rate

\* renderer.rs 131-135: the rate of the probe is taken if none is set yet.
AdoptRate(rate, probe) ==
    IF rate = <<>> /\ probe.track.sample_rate # <<>>
    THEN probe.track.sample_rate ELSE rate

\* renderer.rs 120-143: the closure of the filter_map for one entry of the
\* timing map; acc holds sample_rate, song_length and the entries kept.
ProbeOne(fs, acc, path, time_vec) ==
    LET probe == ProbeNew(fs, path)
    IN  IF probe = <<>> THEN acc
        ELSE IF GetLength(probe[1]) = <<>> THEN acc
        ELSE [rate_opt |-> AdoptRate(acc.rate_opt, probe[1]),
              song_length |->
                  SongLength(acc.song_length, time_vec, GetLength(probe[1])[1]),
              probes |-> Append(acc.probes,
                                [probe |-> probe[1], times |-> time_vec])]

\* renderer.rs 148-160: the window: the percentages when both are given,
\* the seconds otherwise; swapped when start > end.
Window(a, song_len) ==
    LET percent == a.start_p # <<>> /\ a.end_p # <<>>
        s == IF percent
             THEN QMul(QDiv(a.start_p[1], QInt(100)), song_len) ELSE a.start
        e == IF percent
             THEN QMul(QDiv(a.end_p[1], QInt(100)), song_len) ELSE a.end
    IN  IF QLt(e, s) THEN [start |-> e, end |-> s] ELSE [start |-> s, end |-> e]

\* renderer.rs 191-193: render.add(&audio, *time - start) for each time that
\* passed the filter; the result of add is dropped.
RECURSIVE AddTimes(_, _, _, _, _)
AddTimes(buf, rate, audio, times, window_start) ==
    IF times = <<>> THEN buf
    ELSE AddTimes(AddAudio(buf, rate, audio,
                           QSub(Head(times), window_start)).buffer,
                  rate, audio, Tail(times), window_start)

\* renderer.rs 172-175: the times of a source that overlap the window.
FilteredTimes(times, length, window_start, window_end) ==
    LET Overlaps(time) ==
            QLt(time, window_end) /\ QLt(window_start, QAdd(time, length))
    IN  SelectSeq(times, Overlaps)

\* renderer.rs 191-193: the results of the calls of add, which the caller
\* drops.
AddResults(buf, rate, audio, times, window_start) ==
    [k \in 1..Len(times) |->
        AddAudio(buf, rate, audio, QSub(times[k], window_start)).result]

\* A faulty variant of MixOne: a source that fails to load or to resample
\* leaves the destination silent, as if the render had started again.
MixOneClearing(buf, rate, window_start, window_end, entry) ==
    LET length == GetLength(entry.probe)
        filtered_times ==
            IF length = <<>> THEN <<>>
            ELSE FilteredTimes(entry.times, length[1], window_start, window_end)
        audio == LoadAudio(entry.probe)
        matched == IF audio = <<>> THEN <<>>
                   ELSE MatchSampleRate(audio[1], rate, entry.probe)
        cleared == [j \in 1..Len(buf) |-> Silence]
    IN  IF filtered_times = <<>>
        THEN [buffer |-> buf, loaded |-> <<>>, mixed |-> <<>>,
              rate |-> rate, results |-> <<>>]
        ELSE IF audio = <<>>
        THEN [buffer |-> cleared, loaded |-> <<"Err">>, mixed |-> <<>>,
              rate |-> rate, results |-> <<>>]
        ELSE IF matched = <<>>
        THEN [buffer |-> cleared, loaded |-> <<"Ok">>, mixed |-> <<>>,
              rate |-> rate, results |-> <<>>]
        ELSE [buffer |-> AddTimes(buf, rate, matched[1], filtered_times,
                                  window_start),
              loaded |-> <<"Ok">>, mixed |-> filtered_times,
              rate |-> matched[1].sample_rate,
              results |-> AddResults(buf, rate, matched[1], filtered_times,
                                     window_start)]

\* renderer.rs 165-194: the closure of the for_each for one kept entry: the
\* buffer it leaves, whether load was called and how it ended, the times
\* mixed, the sample rate of the audio mixed and the results of add.
MixOne(buf, rate, window_start, window_end, entry) ==
    LET length == GetLength(entry.probe)
        filtered_times ==
            IF length = <<>> THEN <<>>
            ELSE FilteredTimes(entry.times, length[1], window_start, window_end)
        audio == LoadAudio(entry.probe)
        matched == IF audio = <<>> THEN <<>>
                   ELSE MatchSampleRate(audio[1], rate, entry.probe)
    IN  IF filtered_times = <<>>
        THEN [buffer |-> buf, loaded |-> <<>>, mixed |-> <<>>,
              rate |-> rate, results |-> <<>>]
        ELSE IF audio = <<>>
        THEN [buffer |-> buf, loaded |-> <<"Err">>, mixed |-> <<>>,
              rate |-> rate, results |-> <<>>]
        ELSE IF matched = <<>>
        THEN [buffer |-> buf, loaded |-> <<"Ok">>, mixed |-> <<>>,
              rate |-> rate, results |-> <<>>]
        ELSE [buffer |-> AddTimes(buf, rate, matched[1], filtered_times,
                                  window_start),
              loaded |-> <<"Ok">>, mixed |-> filtered_times,
              rate |-> matched[1].sample_rate,
              results |-> AddResults(buf, rate, matched[1], filtered_times,
                                     window_start)]

\* Sequences that list every element of S once: the orders in which a
\* HashMap with key set S may be iterated.
Orders(S) ==
    {o \in [1..Cardinality(S) -> S] : \A i, j \in DOMAIN o : o[i] = o[j] => i = j}

\* renderer.rs 100-109: the call begins and returns at once, leaving
\* everything alone.
RenderSkip ==
    /\ rpc = "entry"
    /\ SkipsRender(bms, args, preview # <<>>)
    /\ result' = <<"Ok">>
    /\ rpc' = "returned"
    /\ UNCHANGED <<timingVars, audioVars, inputVars, toolVars, preview, pidx, probeVars,
                   mixVars, encodeVars>>

\* renderer.rs 100-117: the call begins and calls get_wav_timings.
RenderBegin ==
    /\ rpc = "entry"
    /\ ~SkipsRender(bms, args, preview # <<>>)
    /\ pc = "idle"
    /\ pc' = "seed"
    /\ rpc' = "timings"
    /\ rate_opt' = args.sample_rate
    /\ song_length' = QZero
    /\ UNCHANGED <<bms, sorted, idx, current_bpm, current_section_time,
                   next_section_time, previous_section, timings, walked,
                   audioVars, inputVars, toolVars, preview, result, pidx, order, probes,
                   opened, mixVars, encodeVars>>

\* renderer.rs 117-119: into_iter on the map get_wav_timings returned: the
\* HashMap yields its entries in an order of its own.
IntoIter ==
    /\ rpc = "timings"
    /\ pc = "done"
    /\ order' \in Orders(DOMAIN timings)
    /\ rpc' = "probe"
    /\ pidx' = 0
    /\ probes' = <<>>
    /\ UNCHANGED <<timingVars, audioVars, inputVars, toolVars, preview, result, rate_opt,
                   song_length, opened, mixVars, encodeVars>>

\* renderer.rs 120-143: the filter_map visits one entry.
ProbeEntry ==
    /\ rpc = "probe"
    /\ pidx < Len(order)
    /\ LET path == order[pidx + 1]
           acc == ProbeOne(files,
                           [rate_opt |-> rate_opt, song_length |-> song_length,
                            probes |-> probes],
                           path, timings[path])
       IN  /\ rate_opt' = acc.rate_opt
           /\ song_length' = acc.song_length
           /\ probes' = acc.probes
           /\ opened' = Append(opened, path)
    /\ pidx' = pidx + 1
    /\ UNCHANGED <<timingVars, audioVars, inputVars, toolVars, preview, rpc, result,
                   order, mixVars, encodeVars>>

\* renderer.rs 144-163: the window is resolved and the destination made.
Allocate ==
    /\ rpc = "probe"
    /\ pidx = Len(order)
    /\ LET w == Window(args, song_length)
           rate == IF rate_opt = <<>> THEN 48000 ELSE rate_opt[1]
           render == NewAudio(QSub(w.end, w.start), rate)
       IN  /\ start' = w.start
           /\ end' = w.end
           /\ buffer' = render.buffer
           /\ sample_rate' = render.sample_rate
    /\ rpc' = "mix"
    /\ pidx' = 0
    /\ UNCHANGED <<timingVars, nops, calls, inputVars, toolVars, preview, result,
                   probeVars, loaded, mixed, encodeVars>>

\* renderer.rs 165-194: the for_each visits one kept entry.
MixSource ==
    /\ rpc = "mix"
    /\ pidx < Len(probes)
    /\ LET entry == probes[pidx + 1]
           r == MixOne(buffer, sample_rate, start, end, entry)
       IN  /\ buffer' = r.buffer
           /\ loaded' = IF r.loaded = <<>> THEN loaded
                        ELSE Append(loaded, [path |-> entry.probe.path,
                                             result |-> r.loaded[1]])
           /\ mixed' = mixed \o
                 [k \in 1..Len(r.mixed) |->
                     [path |-> entry.probe.path, time |-> r.mixed[k],
                      rate |-> r.rate, result |-> r.results[k]]]
    /\ pidx' = pidx + 1
    /\ UNCHANGED <<timingVars, sample_rate, nops, calls, inputVars, toolVars, preview,
                   rpc, result, probeVars, start, end, encodeVars>>

\* renderer.rs 197-199: fade, attenuate, and the call of encode.
FadeAttenuate ==
    /\ rpc = "mix"
    /\ pidx = Len(probes)
    /\ buffer' =
          Attenuate(FadeAudio(buffer, sample_rate,
                              args.fade_in, args.fade_out).buffer,
                    QDiv(args.volume, QInt(100)))
    /\ rpc' = "open"
    /\ UNCHANGED <<timingVars, sample_rate, nops, calls, inputVars, toolVars, preview,
                   result, pidx, probeVars, mixVars, encodeVars>>

----------------------------------------------------------------------------
(* The renders the model runs.                                             *)

\* A mono file of n frames 1, 2, ..., n at the given rate, in one packet,
\* with time base 1 / rate.
Track(rate, n) ==
    [recognised |-> TRUE, id |-> 0,
     sample_rate |-> <<rate>>, n_frames |-> <<n>>,
     time_base |-> <<Q(1, rate)>>, channels |-> <<1>>,
     decoder |-> TRUE, resamples |-> TRUE,
     packets |-> <<[read |-> "Ok", track_id |-> 0, decode |-> "Ok",
                    samples |-> [k \in 1..n |-> QInt(k)]]>>]

KickPath == PathJoin(BasePath, WavFiles[1])
SnarePath == PathJoin(BasePath, WavFiles[2])

\* kick.wav: 0.5 s and 1 s at 2 Hz, a file without a frame count at 4 Hz, a
\* file without a channel count (load fails), a file no format reader
\* recognises, a file at 4 Hz the resampler rejects.
KickTracks ==
    {Track(2, 1), Track(2, 2),
     [Track(4, 2) EXCEPT !.n_frames = <<>>],
     [Track(2, 1) EXCEPT !.channels = <<>>],
     [Track(2, 1) EXCEPT !.recognised = FALSE],
     [Track(4, 2) EXCEPT !.resamples = FALSE]}

NoFiles == [path \in {} |-> <<>>]

\* The disk: kick.wav or nothing; sub/snare.wav (1.5 s at 4 Hz), or
\* sub/snare.ogg (1.5 s at 2 Hz) in its place, or nothing.
Disks ==
    {kick @@ snare :
        kick \in {NoFiles} \cup {KickPath :> t : t \in KickTracks},
        snare \in {NoFiles, SnarePath :> Track(4, 6),
                   WithExtension(SnarePath, "ogg") :> Track(2, 3)}}

\* Background notes: at 120 BPM a section lasts 2 s.
RenderNotes ==
    {<<>>,
     <<[offset |-> ObjTime(0, 0, 4), wav_id |-> 1],
       [offset |-> ObjTime(0, 1, 2), wav_id |-> 2]>>,
     <<[offset |-> ObjTime(0, 0, 4), wav_id |-> 1],
       [offset |-> ObjTime(0, 3, 4), wav_id |-> 1],
       [offset |-> ObjTime(1, 0, 4), wav_id |-> 2]>>}

RenderChart(notes, preview_music) ==
    [bpm |-> <<120>>, bpm_changes |-> EmptyMap, section_len_changes |-> EmptyMap,
     notes |-> notes, wav_files |-> WavFiles, base_path |-> BasePath,
     preview_music |-> preview_music]

\* Charts without a declared preview, and one that declares a preview.
RenderCharts ==
    {RenderChart(notes, <<>>) : notes \in RenderNotes}
    \cup {RenderChart(<<[offset |-> ObjTime(0, 0, 4), wav_id |-> 1]>>,
                      <<"preview.ogg">>)}

\* start and end in seconds; the second pair is given in reverse.
WindowSeconds == {<<Q(0, 1), Q(2, 1)>>, <<Q(1, 1), Q(0, 1)>>, <<Q(1, 2), Q(11, 8)>>}

\* start_p and end_p: none, both (zero counts as given), one alone.
WindowPercents == {<<<<>>, <<>>>>, <<<<Q(0, 1)>>, <<Q(33, 1)>>>>, <<<<Q(50, 1)>>, <<>>>>}

ConfiguredRates == {<<>>, <<2>>, <<4>>}

RenderArgs ==
    {[DefaultArgs EXCEPT !.start = w[1], !.end = w[2],
                         !.start_p = p[1], !.end_p = p[2],
                         !.fade_in = Q(1, 2), !.fade_out = Q(1, 2),
                         !.volume = QInt(50),
                         !.sample_rate = r, !.mono_audio = m, !.overwrite = o] :
        w \in WindowSeconds, p \in WindowPercents, r \in ConfiguredRates,
        m \in BOOLEAN, o \in BOOLEAN}

\* A render at 256 Hz of a window of 3 s: its destination spans whole chunks
\* of the encoder.
LongArgs ==
    {[DefaultArgs EXCEPT !.start = Q(0, 1), !.end = Q(3, 1),
                         !.fade_in = Q(1, 2), !.fade_out = Q(1, 2),
                         !.sample_rate = <<256>>, !.mono_audio = m] :
        m \in BOOLEAN}

\* A render of a window of 1/32000 s (3 samples at 48000 Hz).
ShortArgs ==
    {[DefaultArgs EXCEPT !.start = Q(0, 1), !.end = Q(1, 32000),
                         !.fade_in = Q(1, 2), !.fade_out = Q(1, 2),
                         !.volume = QInt(50), !.mono_audio = m] :
        m \in BOOLEAN}

\* Some file of the disk has a duration.
HasDuration(disk) ==
    \E path \in DOMAIN disk :
        disk[path].recognised /\ disk[path].n_frames # <<>>

\* The window is given in percent, or a sample rate is configured or will be
\* supplied by a file: the destination stays short.
ShortRender(in) ==
    \/ in.args.sample_rate # <<>>
    \/ in.args.start_p # <<>> /\ in.args.end_p # <<>>
    \/ in.bms.notes # <<>> /\ in.bms.preview_music = <<>> /\ HasDuration(in.files)

RenderInputs ==
    {in \in [bms : RenderCharts, args : RenderArgs, files : Disks,
             preview : {<<>>, <<EarlierFile>>}] : ShortRender(in)}
    \cup
    [bms : RenderCharts, args : ShortArgs,
     files : {disk \in Disks : ~HasDuration(disk)},
     preview : {<<>>}]
    \cup
    [bms : {RenderChart(notes, <<>>) : notes \in RenderNotes \ {<<>>}},
     args : LongArgs,
     files : {KickPath :> Track(2, 1)},
     preview : {<<>>}]

InitRender ==
    /\ \E in \in RenderInputs :
          /\ bms = in.bms
          /\ args = in.args
          /\ files = in.files
          /\ preview = in.preview
    /\ preview_was = preview
    /\ TimingsIdle
    /\ ToolsIdle
    /\ AudioIdle
    /\ rpc = "entry" /\ result = <<>> /\ order = <<>> /\ pidx = 0
    /\ probes = <<>> /\ rate_opt = <<>> /\ song_length = QZero
    /\ start = QZero /\ end = QZero
    /\ opened = <<>> /\ loaded = <<>> /\ mixed = <<>>
    /\ encoder = <<>> /\ eidx = 0 /\ taken = 0 /\ submitted = <<>>

NextRender ==
    \/ RenderSkip \/ RenderBegin
    \/ Seed \/ WalkNote \/ ReturnTimings
    \/ IntoIter \/ ProbeEntry \/ Allocate \/ MixSource \/ FadeAttenuate
    \/ EncodeOpen \/ EncodeChunk \/ EncodeReturn

SpecRender == InitRender /\ [][NextRender]_vars

----------------------------------------------------------------------------
(* Properties of process_bms_file, checked under SpecRender.               *)

\* The destination has just been made by StereoAudio::new(end - start, rate).
Allocated == rpc = "mix" /\ pidx = 0

\* The sample rate handed to StereoAudio::new.
RenderRate == IF rate_opt = <<>> THEN 48000 ELSE rate_opt[1]

\* length_seconds * 2 * sample_rate of that call, as a rational.
NewProduct == QMul(QMul(QSub(end, start), QInt(2)), QInt(RenderRate))

\* C11 as claimed: StereoAudio::new(length_seconds, sample_rate) returns
\* exactly ceil(length_seconds * 2 * sample_rate) + 1 samples, all (0, 0),
\* with the given sample rate, also when the product is not an integer.
C11_NewCeil ==
    Allocated =>
        /\ Len(buffer) = Ceil(NewProduct) + 1
        /\ \A j \in 1..Len(buffer) : buffer[j] = Silence
        /\ sample_rate = RenderRate

\* C11 as amended: the product is cast with `as usize`, so its fraction is
\* dropped: the buffer has floor(length_seconds * 2 * sample_rate) + 1
\* samples, all (0, 0), with the given sample rate.
C11_NewTruncated ==
    Allocated =>
        /\ QLe(QZero, NewProduct)
        /\ Len(buffer) = (NewProduct[1] \div NewProduct[2]) + 1
        /\ \A j \in 1..Len(buffer) : buffer[j] = Silence
        /\ sample_rate = RenderRate

\* C11 witness: a destination of several samples made for a length whose
\* product with 2 * sample_rate is not an integer.
C11_Witness ==
    /\ Allocated
    /\ NewProduct[2] # 1
    /\ Len(buffer) > 1

\* The stereo frames handed to the encoder.
SubmittedFrames == Len(submitted) * ENCODING_CHUNK_SIZE

\* C12: the preview lasts the requested window: the frames submitted to the
\* encoder, divided by the sample rate, are end - start, up to the one guard
\* sample and the padding to a chunk of 1024 frames.  (Stated for renders
\* whose blocks hold the whole destination, leaving the tail that C13 is
\* about aside.)
C12_PreviewLastsWindow ==
    (/\ rpc = "returned" /\ result = <<"Ok">> /\ encoder # <<>>
     /\ SubmittedFrames >= Len(buffer))
    => LET window_frames == QMul(QSub(end, start), QInt(sample_rate))
       IN  /\ QLe(window_frames, QInt(SubmittedFrames))
           /\ QLe(QInt(SubmittedFrames),
                  QAdd(window_frames, QInt(ENCODING_CHUNK_SIZE)))

\* C15: a failed render leaves no partial output: whenever
\* process_bms_file returns an error, the path preview_path does not exist or
\* holds exactly what it held before the render.
C15_NoPartialOutput ==
    (rpc = "returned" /\ result # <<"Ok">>) => preview = preview_was

\* The chart declares a preview, or overwrite is false and a file was at
\* preview_path when the call began.
SkipCase ==
    \/ bms.preview_music # <<>>
    \/ ~args.overwrite /\ preview_was # <<>>

\* C16: when the chart declares a preview, and when overwrite is false and a
\* file exists at base_dir joined with preview_filename, process_bms_file
\* returns success and leaves the filesystem untouched: no timing is
\* computed, no probe is opened, no file is created or modified.
C16_SkipLeavesFilesystem ==
    SkipCase =>
        /\ rpc \in {"entry", "returned"}
        /\ rpc = "returned" => result = <<"Ok">>
        /\ pc = "idle"
        /\ opened = <<>> /\ loaded = <<>>
        /\ encoder = <<>> /\ submitted = <<>>
        /\ preview = preview_was

\* C16 witness: a call that returned because overwrite is false and the
\* preview file exists, for a chart with sounds and no declared preview.
C16_Witness ==
    /\ rpc = "returned"
    /\ ~args.overwrite /\ preview_was # <<>>
    /\ bms.preview_music = <<>>
    /\ bms.notes # <<>>
    /\ files # NoFiles

\* The for_each over the kept entries has ended.
MixDone == rpc \in {"open", "chunks"} \/ (rpc = "returned" /\ ~SkipCase)

\* The duration of a probed file in seconds: n_frames * time_base.
Duration(probe) ==
    QMul(QInt(probe.track.n_frames[1]), probe.track.time_base[1])

WasMixed(path, time) ==
    \E k \in 1..Len(mixed) : mixed[k].path = path /\ mixed[k].time = time

WasLoaded(path) == \E k \in 1..Len(loaded) : loaded[k].path = path

\* The source of a kept entry can be decoded and brought to the rate of the
\* destination.
Mixable(entry) ==
    /\ LoadAudio(entry.probe) # <<>>
    /\ MatchSampleRate(LoadAudio(entry.probe)[1], sample_rate, entry.probe) # <<>>

\* C17: a start time t of a source with duration d is mixed into the
\* destination if and only if t < end and t + d > start, and a source none of
\* whose times pass this filter is never decoded or resampled (window
\* [10, 15], d = 1, times 5.0, 9.5, 12.0, 20.0 keeps exactly 9.5 and 12.0).
C17_OverlapFilter ==
    MixDone =>
        \A i \in 1..Len(probes) :
            LET entry == probes[i]
                d == Duration(entry.probe)
                Passes(t) == QLt(t, end) /\ QLt(start, QAdd(t, d))
            IN  /\ Mixable(entry) =>
                      \A k \in 1..Len(entry.times) :
                          WasMixed(entry.probe.path, entry.times[k])
                              <=> Passes(entry.times[k])
                /\ (\A k \in 1..Len(entry.times) : ~Passes(entry.times[k]))
                      => ~WasLoaded(entry.probe.path)

\* The entries of the timing map whose file is found, probed and has a
\* duration.
KeptPaths ==
    {path \in DOMAIN timings :
        /\ ProbeNew(files, path) # <<>>
        /\ GetLength(ProbeNew(files, path)[1]) # <<>>}

\* time + duration over the times of the kept entries.
SoundEnds ==
    UNION {{QAdd(timings[path][k], Duration(ProbeNew(files, path)[1])) :
               k \in 1..Len(timings[path])} : path \in KeptPaths}

\* The greatest element of a set of rationals, 0 for none.
Greatest(S) ==
    IF S = {} THEN QZero
    ELSE CHOOSE x \in S \cup {QZero} : \A y \in S \cup {QZero} : QLe(y, x)

\* C18: the window is start_percent / 100 * song_length and end_percent /
\* 100 * song_length when both percentages are present (zero counts), and
\* start_sec, end_sec otherwise, where song_length is the maximum of time +
\* duration over the successfully probed sources; the bounds are swapped
\* when start > end, so the destination is made with a length end - start
\* >= 0.
C18_WindowResolved ==
    Allocated =>
        LET percent == args.start_p # <<>> /\ args.end_p # <<>>
            length == Greatest(SoundEnds)
            s == IF percent
                 THEN QMul(QDiv(args.start_p[1], QInt(100)), length)
                 ELSE args.start
            e == IF percent
                 THEN QMul(QDiv(args.end_p[1], QInt(100)), length)
                 ELSE args.end
        IN  /\ song_length = length
            /\ start = IF QLt(e, s) THEN e ELSE s
            /\ end = IF QLt(e, s) THEN s ELSE e
            /\ QLe(start, end)
            /\ Len(buffer) >= 1

\* The destination exists: StereoAudio::new has been called.
Rendering == rpc \in {"mix", "open", "chunks"} \/ (rpc = "returned" /\ ~SkipCase)

\* The sample rates, in iteration order, of the entries whose file is
\* probed and has a known rate (and a duration, if with_duration).
RECURSIVE KnownRates(_, _)
KnownRates(o, with_duration) ==
    IF o = <<>> THEN <<>>
    ELSE LET probe == ProbeNew(files, Head(o))
             rest == KnownRates(Tail(o), with_duration)
         IN  IF probe # <<>>
                    /\ (with_duration => GetLength(probe[1]) # <<>>)
                    /\ probe[1].track.sample_rate # <<>>
             THEN <<probe[1].track.sample_rate[1]>> \o rest
             ELSE rest

\* The configured rate; else the first of the rates; else 48000.
ChosenRate(rates) ==
    IF args.sample_rate # <<>> THEN args.sample_rate[1]
    ELSE IF rates # <<>> THEN rates[1]
    ELSE 48000

\* C19 as claimed: the destination sample rate is the configured sample_rate
\* when one is given; otherwise that of the first probed file whose rate is
\* known; and 48000 when neither supplies one.
C19_RateOfFirstProbed ==
    Rendering => sample_rate = ChosenRate(KnownRates(order, FALSE))

\* C19 as amended: without a configured rate the rate is that of the first
\* file, in the order the timing map is iterated, that is probed, has a
\* duration and a known rate: a probed file without a duration is dropped
\* before its rate is looked at.
C19_RateOfFirstKept ==
    Rendering => sample_rate = ChosenRate(KnownRates(order, TRUE))

\* C19 witness: no rate is configured, the first file iterated is probed and
\* has a rate but no duration, and the destination has the rate of a later
\* file.
C19_Witness ==
    /\ Rendering
    /\ args.sample_rate = <<>>
    /\ Len(order) = 2
    /\ ProbeNew(files, order[1]) # <<>>
    /\ GetLength(ProbeNew(files, order[1])[1]) = <<>>
    /\ ProbeNew(files, order[1])[1].track.sample_rate # <<sample_rate>>
    /\ ProbeNew(files, order[2]) # <<>>
    /\ ProbeNew(files, order[2])[1].track.sample_rate = <<sample_rate>>

\* renderer.rs 117-144: the filter_map over the entries in the order o.
RECURSIVE ProbeAll(_, _)
ProbeAll(o, acc) ==
    IF o = <<>> THEN acc
    ELSE ProbeAll(Tail(o), ProbeOne(files, acc, Head(o), timings[Head(o)]))

\* renderer.rs 165-194: the for_each over the kept entries.
RECURSIVE MixAll(_, _, _, _, _)
MixAll(buf, rate, window_start, window_end, entries) ==
    IF entries = <<>> THEN buf
    ELSE MixAll(MixOne(buf, rate, window_start, window_end, Head(entries)).buffer,
                rate, window_start, window_end, Tail(entries))

\* renderer.rs 111-198: the destination handed to encode when the timing map
\* is iterated in the order o.
RenderIn(o) ==
    LET acc == ProbeAll(o, [rate_opt |-> args.sample_rate,
                            song_length |-> QZero, probes |-> <<>>])
        w == Window(args, acc.song_length)
        rate == IF acc.rate_opt = <<>> THEN 48000 ELSE acc.rate_opt[1]
        render == NewAudio(QSub(w.end, w.start), rate)
        mix == MixAll(render.buffer, rate, w.start, w.end, acc.probes)
    IN  [buffer |-> Attenuate(FadeAudio(mix, rate, args.fade_in,
                                        args.fade_out).buffer,
                              QDiv(args.volume, QInt(100))),
         sample_rate |-> rate]

\* C20: the render is independent of the mix order: the final destination
\* (sample rate, length, every sample) is the same for every order in which
\* the entries of the timing map are iterated, also when no sample rate is
\* configured and the sources have different sample rates.
C20_OrderIndependent ==
    rpc = "open" =>
        \A o \in Orders(DOMAIN timings) :
            RenderIn(o) = [buffer |-> buffer, sample_rate |-> sample_rate]

----------------------------------------------------------------------------
(* The tempo update of the walk, checked under SpecTimings.                *)

\* The tempo in force after the k-th visited note.
BpmLeft(k) == IF k < Len(walked) THEN walked[k + 1].bpm ELSE current_bpm

\* The BPM changes at or after a position, however far ahead.
ChangesFrom(offset) ==
    {c \in DOMAIN bms.bpm_changes :
        QLe(Position(offset), Position(c))}

\* The length in seconds of a section of the chart at a tempo.
SectionAt(track, bpm) ==
    LET len == IF track \in DOMAIN bms.section_len_changes
               THEN bms.section_len_changes[track] ELSE QInt(1)
    IN  QDiv(QMul(QMul(len, QInt(4)), QInt(60)), bpm)

----------------------------------------------------------------------------
(* Failing sources and the rates mixed, checked under SpecRender.          *)

\* The paths of the timing map, in iteration order, that Probe::new and
\* get_length accept.
KeptOrder ==
    LET IsKept(path) == path \in KeptPaths IN SelectSeq(order, IsKept)

\* The audio of a kept entry at the rate of the destination.
Matched(entry) ==
    MatchSampleRate(LoadAudio(entry.probe)[1], sample_rate, entry.probe)[1]

\* The times of a kept entry that the filter of the render lets through.
Passing(entry) ==
    LET length == GetLength(entry.probe)[1]
        Overlaps(t) == QLt(t, end) /\ QLt(start, QAdd(t, length))
    IN  SelectSeq(entry.times, Overlaps)

\* The destination after the first k kept entries when only the sources
\* that load and resample add samples.
RECURSIVE GoodMix(_)
GoodMix(k) ==
    IF k = 0 THEN [j \in 1..Len(buffer) |-> Silence]
    ELSE IF Mixable(probes[k])
    THEN AddTimes(GoodMix(k - 1), sample_rate, Matched(probes[k]),
                  Passing(probes[k]), start)
    ELSE GoodMix(k - 1)

\* Some source of the render failed: not found or not recognised, without a
\* duration, not loadable, or not resampled.
SourceFailed ==
    \/ \E path \in DOMAIN timings : path \notin KeptPaths
    \/ \E i \in 1..Len(probes) : ~Mixable(probes[i])

C27_MixedAtDestinationRate ==
    /\ \A k \in 1..Len(mixed) :
          /\ mixed[k].rate = sample_rate
          /\ mixed[k].result # "MismatchedSampleRate"
    /\ MixDone =>
          \A i \in 1..Len(probes) :
              Mixable(probes[i]) =>
                  \A k \in 1..Len(Passing(probes[i])) :
                      \E m \in 1..Len(mixed) :
                          /\ mixed[m].path = probes[i].probe.path
                          /\ mixed[m].time = Passing(probes[i])[k]
                          /\ mixed[m].result = "Ok"

\* A source recorded at another rate than the destination's was resampled
\* and mixed.
C27_Witness ==
    /\ MixDone
    /\ \E i \in 1..Len(probes) :
          /\ probes[i].probe.track.sample_rate # <<sample_rate>>
          /\ \E m \in 1..Len(mixed) :
                /\ mixed[m].path = probes[i].probe.path
                /\ mixed[m].rate = sample_rate
                /\ mixed[m].result = "Ok"

----------------------------------------------------------------------------
(* Sequences of add, fade and attenuate on one destination.                *)

\* Destinations as StereoAudio::new and earlier calls leave them: the
\* buffers of DestBuffers, and the same after a fade of 0 s in and 0.5 s out,
\* whose last sample is 0/0.
BufferDests ==
    DestBuffers
    \cup {FadeAudio(b, 2, Q(0, 1), Q(1, 2)).buffer : b \in DestBuffers}

\* Sources at the destination's rate and at another rate.
BufferSources == {Source(2, 2), Source(MaxBufLen, 2), Source(2, 4)}

\* Offsets in seconds: -1, 0, 1 and 4 samples at 2 Hz.
BufferOffsets == {Q(-1, 2), Q(0, 1), Q(1, 2), Q(2, 1)}

BufferFades == {<<Q(1, 2), Q(1, 2)>>, <<Q(1, 1), Q(3, 1)>>}

\* Volumes as attenuate receives them (args.volume / 100).
Volumes == {Q(0, 1), Q(1, 2), Q(1, 1), Q(2, 1)}

\* render.attenuate(volume)
AttenuateCall(volume) ==
    /\ pc = "idle"
    /\ nops < MaxOps
    /\ buffer' = Attenuate(buffer, volume)
    /\ calls' = Append(calls,
          [op |-> "attenuate", before |-> buffer, volume |-> volume])
    /\ nops' = nops + 1
    /\ UNCHANGED <<sample_rate, timingVars, renderVars, toolVars>>

InitBuffer ==
    /\ buffer \in BufferDests
    /\ sample_rate \in DestRates
    /\ nops = 0
    /\ calls = <<>>
    /\ bms = IdleChart
    /\ TimingsIdle
    /\ ToolsIdle
    /\ RenderIdle

NextBuffer ==
    \/ \E rhs \in BufferSources, offset \in BufferOffsets : Add(rhs, offset)
    \/ \E f \in BufferFades : Fade(f[1], f[2])
    \/ \E volume \in Volumes : AttenuateCall(volume)

SpecBuffer == InitBuffer /\ [][NextBuffer]_vars

----------------------------------------------------------------------------
(* Properties of attenuate and of call sequences, checked under SpecBuffer. *)

\* Every sample of a buffer times a scalar.
Scaled(buf, v) ==
    [j \in 1..Len(buf) |->
        [left |-> FMul(buf[j].left, v), right |-> FMul(buf[j].right, v)]]

\* C22: attenuation composes multiplicatively: attenuate(b) followed by
\* attenuate(a) leaves the buffer that attenuate(a * b) leaves on the
\* original buffer (every sample times a * b, the buffer itself when
\* a * b = 1), also when a or b is 1; attenuate(1.0) alone changes nothing.
C22_AttenuateComposes ==
    /\ \A k \in 1..Len(calls) :
          (calls[k].op = "attenuate" /\ calls[k].volume = QInt(1))
              => After(k) = calls[k].before
    /\ \A k \in 1..(Len(calls) - 1) :
          (calls[k].op = "attenuate" /\ calls[k + 1].op = "attenuate") =>
              LET ab == QMul(calls[k + 1].volume, calls[k].volume)
              IN  After(k + 1) =
                      IF ab = QInt(1) THEN calls[k].before
                      ELSE Scaled(calls[k].before, ab)

\* attenuate(2.0) and then attenuate(0.5) ran on a buffer that holds a
\* finite sample other than zero and a sample that is not finite.
C22_Witness ==
    /\ Len(calls) = 2
    /\ calls[1].op = "attenuate" /\ calls[1].volume = Q(2, 1)
    /\ calls[2].op = "attenuate" /\ calls[2].volume = Q(1, 2)
    /\ \E j \in 1..Len(buffer) : buffer[j].left[2] = 0
    /\ \E j \in 1..Len(buffer) :
          buffer[j].left[2] # 0 /\ buffer[j].left[1] # 0
    /\ calls[2].before # buffer

\* The offset of an add in samples: offset * sample_rate without its
\* fraction.
RawOffset(c) == TowardZero(QMul(c.offset, QInt(sample_rate)))

\* The samples of the destination an add may change: those of
\* [dst_offset, dst_offset + n), n = min(len - dst_offset, rhs.len -
\* src_offset), counted from 0; none when the add fails or returns early.
AddRange(c, len) ==
    LET raw == RawOffset(c)
        positive == raw >= 0 /\ raw < len
        negative == raw < 0 /\ -raw < Len(c.rhs.buffer)
        dst_offset == IF positive THEN raw ELSE 0
        src_offset == IF positive THEN 0 ELSE -raw
        n == Min(len - dst_offset, Len(c.rhs.buffer) - src_offset)
    IN  IF c.result # "Ok" \/ ~(positive \/ negative) THEN {}
        ELSE {j \in 0..(len - 1) : dst_offset <= j /\ j < dst_offset + n}

\* C28: whatever add, fade and attenuate calls are made on a destination,
\* and whether they succeed or fail, each call leaves the buffer its length
\* and its sample rate, and an add changes no sample outside
\* [dst_offset, dst_offset + n).
C28_CallsKeepShape ==
    [][/\ Len(buffer') = Len(buffer)
       /\ sample_rate' = sample_rate
       /\ Len(calls') = Len(calls) + 1
       /\ LET c == calls'[Len(calls')]
          IN  c.op = "add" =>
                 \A j \in 1..Len(buffer) :
                     (j - 1) \notin AddRange(c, Len(buffer))
                         => buffer'[j] = buffer[j]]_vars

\* After an add that failed for its sample rate, an add of a source longer
\* than the room left changed the end of the destination and nothing else.
C28_Witness ==
    /\ Len(calls) = 2
    /\ calls[1].op = "add" /\ calls[1].result = "MismatchedSampleRate"
    /\ calls[2].op = "add" /\ calls[2].result = "Ok"
    /\ RawOffset(calls[2]) = 1
    /\ Len(calls[2].rhs.buffer) > Len(buffer) - 1
    /\ Len(buffer) > 1
    /\ buffer[1] = calls[2].before[1]
    /\ buffer[Len(buffer)] # calls[2].before[Len(buffer)]

----------------------------------------------------------------------------
(* StereoAudio::load on its own.                                           *)

MaxPackets == 3

\* What next_packet and decode yield for one packet: samples of the default
\* track (two different packets), a packet of another track, a DecodeError,
\* another decode error, a read error.
PacketKinds ==
    {[read |-> "Ok", track_id |-> 0, decode |-> "Ok",
      samples |-> <<QInt(1), QInt(2)>>],
     [read |-> "Ok", track_id |-> 0, decode |-> "Ok",
      samples |-> <<QInt(3), QInt(4), QInt(5), QInt(6)>>],
     [read |-> "Ok", track_id |-> 1, decode |-> "Ok",
      samples |-> <<QInt(9), QInt(9)>>],
     [read |-> "Ok", track_id |-> 0, decode |-> "DecodeError", samples |-> <<>>],
     [read |-> "Ok", track_id |-> 0, decode |-> "IoError", samples |-> <<>>],
     [read |-> "IoError", track_id |-> 0, decode |-> "Ok", samples |-> <<>>]}

\* The probes handed to load: with and without a channel count and a sample
\* rate, with a codec that has a decoder and one that has none.
LoadProbes ==
    {[path |-> KickPath,
      track |-> [Track(2, 1) EXCEPT !.channels = c, !.sample_rate = r,
                                    !.decoder = d, !.packets = p]] :
        c \in {<<>>, <<1>>, <<2>>}, r \in {<<>>, <<2>>}, d \in BOOLEAN,
        p \in SeqsUpTo(PacketKinds, MaxPackets)}

\* StereoAudio::load(probe)
Load ==
    /\ lpc = "entry"
    /\ load_result' = <<LoadAudio(load_probe)>>
    /\ lpc' = "returned"
    /\ UNCHANGED <<timingVars, audioVars, renderVars, load_probe, treeVars,
                   folderVars, discoverVars>>

InitLoad ==
    /\ load_probe \in LoadProbes
    /\ lpc = "entry" /\ load_result = <<>>
    /\ TreeIdle /\ FolderIdle /\ DiscoverIdle
    /\ bms = IdleChart
    /\ pc = "idle" /\ sorted = <<>> /\ idx = 0
    /\ current_bpm = QInt(DEFAULT_BPM)
    /\ current_section_time = QZero /\ next_section_time = QZero
    /\ previous_section = 0 /\ timings = EmptyMap /\ walked = <<>>
    /\ AudioIdle
    /\ RenderIdle

NextLoad == Load

SpecLoad == InitLoad /\ [][NextLoad]_vars

----------------------------------------------------------------------------
(* Properties of load, checked under SpecLoad.                             *)

\* The packets of the file handed to load.
Packets == load_probe.track.packets

\* The packet ends the decoding: it cannot be read, or it belongs to the
\* default track and its decoding fails otherwise than with DecodeError.
Ends(packet) ==
    \/ packet.read # "Ok"
    \/ /\ packet.track_id = load_probe.track.id
       /\ packet.decode \notin {"Ok", "DecodeError"}

\* The number of packets before the first that ends the decoding.
Decodable ==
    IF \E k \in 1..Len(Packets) : Ends(Packets[k])
    THEN (CHOOSE k \in 1..Len(Packets) :
             /\ Ends(Packets[k])
             /\ \A j \in 1..(k - 1) : ~Ends(Packets[j])) - 1
    ELSE Len(Packets)

\* The stereo samples the first k packets hold for the default track.
RECURSIVE SamplesOf(_)
SamplesOf(k) ==
    IF k = 0 THEN <<>>
    ELSE LET packet == Packets[k]
             channels == load_probe.track.channels[1]
             frames == [f \in 1..(Len(packet.samples) \div channels) |->
                          [left |-> packet.samples[(f - 1) * channels + 1],
                           right |-> packet.samples[f * channels]]]
         IN  IF packet.track_id = load_probe.track.id /\ packet.decode = "Ok"
             THEN SamplesOf(k - 1) \o frames
             ELSE SamplesOf(k - 1)

\* C26: load returns an error only when the channel count or the sample
\* rate is missing or no decoder can be built; otherwise it returns Ok with
\* the samples of every packet of the default track decoded before the
\* first read error or decode error other than DecodeError: a DecodeError
\* adds no samples and does not stop the packets after it.
C26_LoadPacketErrors ==
    lpc = "returned" =>
        IF \/ load_probe.track.channels = <<>>
           \/ load_probe.track.sample_rate = <<>>
           \/ ~load_probe.track.decoder
        THEN load_result = <<<<>>>>
        ELSE /\ load_result[1] # <<>>
             /\ load_result[1][1].sample_rate = load_probe.track.sample_rate[1]
             /\ load_result[1][1].buffer = SamplesOf(Decodable)

\* load returned the samples of the packet that followed a DecodeError and
\* none of the packet that followed another decode error.
C26_Witness ==
    /\ lpc = "returned"
    /\ Len(Packets) = 3
    /\ Packets[1].decode = "DecodeError"
    /\ Packets[2].decode = "Ok" /\ Packets[2].track_id = 0
    /\ Packets[2].read = "Ok"
    /\ Packets[3].decode = "IoError"
    /\ load_result[1] # <<>>
    /\ Len(load_result[1][1].buffer) = 2
    /\ load_probe.track.channels = <<2>>

----------------------------------------------------------------------------
(* Directory trees: the songs folder as WalkDir and read_dir see it.       *)

SongsFolder == <<"/", "songs">>

\* Path::parent: <<>> stands for None.
Parent(path) == IF Len(path) <= 1 THEN <<>> ELSE <<SubSeq(path, 1, Len(path) - 1)>>

\* Path::extension of the file names the trees use; <<>> stands for None.
ExtensionOf(path) ==
    LET name == path[Len(path)]
    IN  CASE name = "x.bms" -> <<"bms">>
          [] name = "y.bme" -> <<"bme">>
          [] name = "v.bml" -> <<"bml">>
          [] name = "w.pms" -> <<"pms">>
          [] name = "z.bmson" -> <<"bmson">>
          [] name = "sub.bms" -> <<"bms">>
          [] name = "kick.wav" -> <<"wav">>
          [] OTHER -> <<>>

\* bms_preview.rs 120, main.rs 45
VALID_EXTS == {"bms", "bme", "bml", "pms", "bmson"}

\* An entry of a tree: a file, a directory, or a directory that cannot be
\* read ("denied").
File(dir, name) == [path |-> Append(dir, name), kind |-> "file"]
Dir(dir, name) == [path |-> Append(dir, name), kind |-> "dir"]
Denied(dir, name) == [path |-> Append(dir, name), kind |-> "denied"]

SongsDir == [path |-> SongsFolder, kind |-> "dir"]
DirA == Append(SongsFolder, "a")
DirB == Append(SongsFolder, "b")
DirSub == Append(DirA, "sub.bms")

\* The trees: two song directories with several charts; a chart in the
\* songs folder itself, a file without extension and a directory named like
\* a chart; a directory that cannot be read; a directory without a chart;
\* the empty folder.
SongTrees ==
    {{SongsDir, Dir(SongsFolder, "a"), File(DirA, "x.bms"), File(DirA, "y.bme"),
      File(DirA, "kick.wav"), Dir(SongsFolder, "b"), File(DirB, "z.bmson")},
     {SongsDir, File(SongsFolder, "w.pms"), File(SongsFolder, "README"),
      Dir(SongsFolder, "a"), Dir(DirA, "sub.bms"), File(DirSub, "v.bml")},
     {SongsDir, Denied(SongsFolder, "a"), Dir(SongsFolder, "b"),
      File(DirB, "x.bms"), File(DirB, "README")},
     {SongsDir, Dir(SongsFolder, "a"), File(DirA, "kick.wav")},
     {SongsDir, File(SongsFolder, "x.bms"), File(SongsFolder, "y.bme")},
     {SongsDir}}

\* The songs folder is missing, or is a file.
NoSongTrees == {{}, {[path |-> SongsFolder, kind |-> "file"]}}

IsDir(t, path) == \E n \in t : n.path = path /\ n.kind \in {"dir", "denied"}
IsFile(t, path) == \E n \in t : n.path = path /\ n.kind = "file"

\* The entries of a directory.
Children(t, dir) == {n.path : n \in {m \in t : Parent(m.path) = <<dir>>}}

\* The orders in which the directories of a tree may list their entries.
Listings(t) ==
    LET dirs == {n.path : n \in {m \in t : m.kind = "dir"}}
    IN  {l \in [dirs -> UNION {Orders(Children(t, d)) : d \in dirs}] :
            \A d \in dirs : l[d] \in Orders(Children(t, d))}

\* WalkDir::new(root).into_iter(): a directory, then its entries in listing
\* order, each followed by its own; an Err for a directory that cannot be
\* read.
RECURSIVE WalkFrom(_, _, _)
RECURSIVE WalkAll(_, _, _)
WalkFrom(t, l, path) ==
    LET node == CHOOSE n \in t : n.path = path
        item == [ok |-> TRUE, path |-> path, kind |-> node.kind]
    IN  IF node.kind = "file" THEN <<item>>
        ELSE IF node.kind = "denied" THEN <<item, [ok |-> FALSE]>>
        ELSE <<item>> \o WalkAll(t, l, l[path])

WalkAll(t, l, paths) ==
    IF paths = <<>> THEN <<>>
    ELSE WalkFrom(t, l, Head(paths)) \o WalkAll(t, l, Tail(paths))

----------------------------------------------------------------------------
(* process_folder and process_song (src/src/bms_preview.rs).               *)

\* A faulty variant of Selects: explored_folders is not consulted.
SelectsEvery(t, explored, item) ==
    /\ item.ok
    /\ Parent(item.path) # <<>>
    /\ ExtensionOf(item.path) # <<>>
    /\ ExtensionOf(item.path)[1] \in VALID_EXTS
    /\ IsFile(t, item.path)

\* bms_preview.rs 129-146: the closure of the filter_map keeps the item.
Selects(t, explored, item) ==
    /\ item.ok
    /\ Parent(item.path) # <<>>
    /\ ExtensionOf(item.path) # <<>>
    /\ ExtensionOf(item.path)[1] \in VALID_EXTS
    /\ IsFile(t, item.path)
    /\ Parent(item.path)[1] \notin explored

\* A faulty variant of OutputPath: the preview goes to the songs folder.
OutputPathShared(chart, a) == PathJoin(SongsFolder, a.preview_file)

\* renderer.rs 101 and 237: base_path.join(&args.preview_file), base_path
\* being the parent of the chart.
OutputPath(chart, a) == PathJoin(Parent(chart)[1], a.preview_file)

\* A faulty variant of FolderResult: a failed job fails the call.
FolderResultStrict(js) ==
    IF \E i \in DOMAIN js : js[i] = "failed" THEN "Failed" ELSE "Ok"

\* bms_preview.rs 158: Ok(()) whatever the jobs printed.
FolderResult(js) == "Ok"

\* bms_preview.rs 122-129: the songs folder is checked and the walk begins.
FolderCheck ==
    /\ fpc = "entry"
    /\ IF ~IsDir(tree, SongsFolder)
       THEN /\ folder_result' = <<"InvalidSongsFolder">>
            /\ fpc' = "returned"
            /\ walk' = walk
       ELSE /\ walk' = WalkFrom(tree, listing, SongsFolder)
            /\ fpc' = "walk"
            /\ folder_result' = folder_result
    /\ UNCHANGED <<timingVars, audioVars, renderVars, loadVars, treeVars,
                   widx, explored_folders, bms_files, jobs, attempts, writes,
                   discoverVars>>

\* bms_preview.rs 129-148: the filter_map visits one item of the walk.
FilterEntry ==
    /\ fpc = "walk"
    /\ widx < Len(walk)
    /\ LET item == walk[widx + 1]
       IN  IF Selects(tree, explored_folders, item)
           THEN /\ explored_folders' =
                       explored_folders \cup {Parent(item.path)[1]}
                /\ bms_files' = Append(bms_files, item.path)
           ELSE UNCHANGED <<explored_folders, bms_files>>
    /\ widx' = widx + 1
    /\ UNCHANGED <<timingVars, audioVars, renderVars, loadVars, treeVars,
                   fpc, walk, jobs, attempts, writes, folder_result,
                   discoverVars>>

\* bms_preview.rs 148-155: the charts are collected and handed to for_each.
Dispatch ==
    /\ fpc = "walk"
    /\ widx = Len(walk)
    /\ jobs' = [i \in 1..Len(bms_files) |-> "pending"]
    /\ fpc' = "jobs"
    /\ UNCHANGED <<timingVars, audioVars, renderVars, loadVars, treeVars,
                   walk, widx, explored_folders, bms_files, attempts, writes,
                   folder_result, discoverVars>>

\* bms_preview.rs 151-155: iter() runs the jobs one after the other in the
\* order of bms_files; par_iter() runs them on the threads of a pool, in any
\* order and overlapping.
MayStart(i) ==
    /\ jobs[i] = "pending"
    /\ args.parallel \/ \A j \in 1..(i - 1) : jobs[j] \in {"ok", "failed"}

\* bms_preview.rs 78-90: process_song begins: Renderer::new reads and parses
\* the chart, or fails.
JobStart(i) ==
    /\ fpc = "jobs"
    /\ MayStart(i)
    /\ attempts' = Append(attempts, i)
    /\ \E parsed \in BOOLEAN :
          jobs' = [jobs EXCEPT ![i] = IF parsed THEN "parsed" ELSE "failed"]
    /\ UNCHANGED <<timingVars, audioVars, renderVars, loadVars, treeVars,
                   fpc, walk, widx, explored_folders, bms_files, writes,
                   folder_result, discoverVars>>

\* bms_preview.rs 91, renderer.rs 100-199: process_bms_file up to
\* File::create: it skips the render, or creates the output, or fails to.
JobOpen(i) ==
    /\ fpc = "jobs"
    /\ jobs[i] = "parsed"
    /\ \E outcome \in {"skip", "create", "IOError"} :
          /\ jobs' = [jobs EXCEPT ![i] =
                         CASE outcome = "skip" -> "ok"
                           [] outcome = "create" -> "encoding"
                           [] OTHER -> "failed"]
          /\ writes' = IF outcome = "create"
                       THEN Append(writes,
                                   [job |-> i,
                                    path |-> OutputPath(bms_files[i], args)])
                       ELSE writes
    /\ UNCHANGED <<timingVars, audioVars, renderVars, loadVars, treeVars,
                   fpc, walk, widx, explored_folders, bms_files, attempts,
                   folder_result, discoverVars>>

\* stereo_audio.rs 376-426, bms_preview.rs 92-113: the encoder runs and
\* process_song prints the result.
JobFinish(i) ==
    /\ fpc = "jobs"
    /\ jobs[i] = "encoding"
    /\ \E encoded \in BOOLEAN :
          jobs' = [jobs EXCEPT ![i] = IF encoded THEN "ok" ELSE "failed"]
    /\ UNCHANGED <<timingVars, audioVars, renderVars, loadVars, treeVars,
                   fpc, walk, widx, explored_folders, bms_files, attempts,
                   writes, folder_result, discoverVars>>

\* bms_preview.rs 158: for_each has returned.
FolderReturn ==
    /\ fpc = "jobs"
    /\ \A i \in DOMAIN jobs : jobs[i] \in {"ok", "failed"}
    /\ folder_result' = <<FolderResult(jobs)>>
    /\ fpc' = "returned"
    /\ UNCHANGED <<timingVars, audioVars, renderVars, loadVars, treeVars,
                   walk, widx, explored_folders, bms_files, jobs, attempts,
                   writes, discoverVars>>

\* preview_file: a bare file name, or an absolute path.
PreviewFiles == {<<"preview_auto_generated.ogg">>, <<"/", "tmp", "preview.ogg">>}

FolderArgs ==
    {[DefaultArgs EXCEPT !.parallel = par, !.preview_file = f] :
        par \in BOOLEAN, f \in PreviewFiles}

InitFolder ==
    /\ \E t \in SongTrees \cup NoSongTrees :
          /\ tree = t
          /\ listing \in Listings(t)
    /\ fpc = "entry" /\ walk = <<>> /\ widx = 0
    /\ explored_folders = {} /\ bms_files = <<>> /\ jobs = <<>>
    /\ attempts = <<>> /\ writes = <<>> /\ folder_result = <<>>
    /\ LoadIdle /\ DiscoverIdle
    /\ bms = IdleChart
    /\ TimingsIdle
    /\ AudioIdle
    /\ files = <<>> /\ preview = <<>> /\ preview_was = <<>>
    /\ args \in FolderArgs
    /\ rpc = "idle" /\ result = <<>> /\ order = <<>> /\ pidx = 0
    /\ probes = <<>> /\ rate_opt = <<>> /\ song_length = QZero
    /\ start = QZero /\ end = QZero
    /\ opened = <<>> /\ loaded = <<>> /\ mixed = <<>>
    /\ encoder = <<>> /\ eidx = 0 /\ taken = 0 /\ submitted = <<>>

NextFolder ==
    \/ FolderCheck \/ FilterEntry \/ Dispatch
    \/ \E i \in DOMAIN jobs : JobStart(i) \/ JobOpen(i) \/ JobFinish(i)
    \/ FolderReturn

SpecFolder == InitFolder /\ [][NextFolder]_vars

----------------------------------------------------------------------------
(* Properties of process_folder, checked under SpecFolder.                 *)

\* The walk is over and the charts are selected.
Collected == fpc = "jobs" \/ (fpc = "returned" /\ IsDir(tree, SongsFolder))

\* The positions of the walk at which a chart file of a directory is met: a
\* file with one of the five extensions.
ChartsMet(dir) ==
    {k \in 1..Len(walk) :
        /\ walk[k].ok
        /\ walk[k].kind = "file"
        /\ Parent(walk[k].path) = <<dir>>
        /\ \E ext \in VALID_EXTS : ExtensionOf(walk[k].path) = <<ext>>}

SelectedIn(dir) ==
    {i \in 1..Len(bms_files) : Parent(bms_files[i]) = <<dir>>}

\* C23: process_folder selects exactly one chart per directory: every
\* directory of the tree in which the walk meets a file with extension bms,
\* bme, bml, pms or bmson contributes exactly one selected file, the first
\* such file met, a directory without one contributes none, and no two
\* selected files share a parent.
C23_OneChartPerDirectory ==
    Collected =>
        /\ \A n \in tree :
              n.kind = "dir" =>
                  IF ChartsMet(n.path) = {}
                  THEN SelectedIn(n.path) = {}
                  ELSE \E i \in 1..Len(bms_files) :
                          /\ SelectedIn(n.path) = {i}
                          /\ \E k \in ChartsMet(n.path) :
                                /\ bms_files[i] = walk[k].path
                                /\ \A j \in ChartsMet(n.path) : k <= j
        /\ \A i, j \in 1..Len(bms_files) :
              Parent(bms_files[i]) = Parent(bms_files[j]) => i = j
        /\ \A i \in 1..Len(bms_files) : IsDir(tree, Parent(bms_files[i])[1])

\* Two directories hold charts, one of them several and other files; one
\* chart of each was selected, y.bme met before x.bms.
C23_Witness ==
    /\ Collected
    /\ Len(bms_files) = 2
    /\ Append(DirA, "y.bme") \in {bms_files[i] : i \in 1..2}
    /\ Append(DirB, "z.bmson") \in {bms_files[i] : i \in 1..2}
    /\ Cardinality(ChartsMet(DirA)) = 2

BareFileName == Len(args.preview_file) = 1

\* C29: when preview_file is a bare file name no two jobs of one call write
\* the same output path: each job writes only parent(chart) joined with
\* preview_file, and the parents differ.
C29_DistinctOutputs ==
    BareFileName =>
        /\ \A v, w \in 1..Len(writes) :
              writes[v].path = writes[w].path => writes[v].job = writes[w].job
        /\ \A w \in 1..Len(writes) :
              writes[w].path =
                  Parent(bms_files[writes[w].job])[1] \o args.preview_file

\* Two parallel jobs have their outputs open at the same time.
C29_Witness ==
    /\ BareFileName
    /\ args.parallel
    /\ Len(jobs) = 2
    /\ jobs[1] = "encoding" /\ jobs[2] = "encoding"
    /\ Len(writes) = 2
    /\ writes[1].path # writes[2].path

----------------------------------------------------------------------------
(* get_bms_files (src/src/main.rs).                                        *)

\* The calls of get_bms_files the process can hold at once: each holds a
\* stack frame and an open directory.
MaxDepth == 3

\* The call on top of the stack, and the entry its loop looks at.
TopCall == stack[Len(stack)]
TopItems == IF IsDir(tree, TopCall.dir) /\ TopCall.dir \in DOMAIN listing
            THEN listing[TopCall.dir] ELSE <<>>

\* main.rs 44-68: the call on top returns Ok(()): its caller goes on with
\* the entry after the directory, the outermost call returns to main.
ReturnOk(files_now) ==
    /\ chart_files' = files_now
    /\ IF Len(stack) = 1
       THEN /\ stack' = <<>>
            /\ dpc' = "returned"
            /\ discover_result' = <<"Ok">>
       ELSE /\ stack' =
                  [SubSeq(stack, 1, Len(stack) - 1)
                      EXCEPT ![Len(stack) - 1].i = @ + 1]
            /\ UNCHANGED <<dpc, discover_result>>

\* main.rs 81, 47-48: main calls get_bms_files(&mut files, song_folder).
DiscoverCall ==
    /\ dpc = "entry"
    /\ stack' = <<[dir |-> SongsFolder, i |-> 1]>>
    /\ dpc' = "run"
    /\ UNCHANGED <<timingVars, audioVars, renderVars, loadVars, treeVars,
                   folderVars, chart_files, discover_result>>

\* main.rs 47, 49, 68: dir is not a directory, or its entries are used up.
DiscoverEnd ==
    /\ dpc = "run"
    /\ TopCall.i > Len(TopItems)
    /\ ReturnOk(chart_files)
    /\ UNCHANGED <<timingVars, audioVars, renderVars, loadVars, treeVars,
                   folderVars>>

\* main.rs 53-64: the entry is a file: without an extension the call returns
\* Ok(()), with a chart extension the path is pushed.
DiscoverFile ==
    /\ dpc = "run"
    /\ TopCall.i <= Len(TopItems)
    /\ LET path == TopItems[TopCall.i]
           ext == ExtensionOf(path)
       IN  /\ ~IsDir(tree, path)
           /\ IF ext = <<>>
              THEN ReturnOk(chart_files)
              ELSE /\ chart_files' = IF ext[1] \in VALID_EXTS
                                     THEN Append(chart_files, path)
                                     ELSE chart_files
                   /\ stack' = [stack EXCEPT ![Len(stack)].i = @ + 1]
                   /\ UNCHANGED <<dpc, discover_result>>
    /\ UNCHANGED <<timingVars, audioVars, renderVars, loadVars, treeVars,
                   folderVars>>

\* main.rs 51-52: the entry is a directory: get_bms_files(files, &dir) is
\* called with the directory of this call, not with the entry.
DiscoverRecurse ==
    /\ dpc = "run"
    /\ TopCall.i <= Len(TopItems)
    /\ IsDir(tree, TopItems[TopCall.i])
    /\ Len(stack) < MaxDepth
    /\ stack' = Append(stack, [dir |-> TopCall.dir, i |-> 1])
    /\ UNCHANGED <<timingVars, audioVars, renderVars, loadVars, treeVars,
                   folderVars, dpc, chart_files, discover_result>>

\* main.rs 48, 52: one call more than the process can hold: read_dir fails
\* for want of file descriptors and the error goes up through every `?`, or
\* the stack overflows and the process is killed.
DiscoverExhaust ==
    /\ dpc = "run"
    /\ TopCall.i <= Len(TopItems)
    /\ IsDir(tree, TopItems[TopCall.i])
    /\ Len(stack) = MaxDepth
    /\ \/ /\ dpc' = "returned"
          /\ discover_result' = <<"Err">>
          /\ stack' = <<>>
       \/ /\ dpc' = "aborted"
          /\ UNCHANGED <<stack, discover_result>>
    /\ UNCHANGED <<timingVars, audioVars, renderVars, loadVars, treeVars,
                   folderVars, chart_files>>

InitDiscover ==
    /\ \E t \in SongTrees :
          /\ tree = t
          /\ listing \in Listings(t)
    /\ dpc = "entry" /\ stack = <<>> /\ chart_files = <<>>
    /\ discover_result = <<>>
    /\ LoadIdle /\ FolderIdle
    /\ bms = IdleChart
    /\ TimingsIdle
    /\ AudioIdle
    /\ RenderIdle

NextDiscover ==
    \/ DiscoverCall \/ DiscoverEnd \/ DiscoverFile
    \/ DiscoverRecurse \/ DiscoverExhaust

\* The process runs on as long as it has a step to take.
SpecDiscover ==
    InitDiscover /\ [][NextDiscover]_vars /\ WF_vars(NextDiscover)

----------------------------------------------------------------------------
(* Properties of get_bms_files, checked under SpecDiscover.                *)

\* The files of the tree with one of the five extensions.
ChartsOfTree ==
    {n.path : n \in {m \in tree :
        /\ m.kind = "file"
        /\ \E ext \in VALID_EXTS : ExtensionOf(m.path) = <<ext>>}}

\* C30: get_bms_files terminates on every finite directory tree, also when
\* the songs folder contains a subdirectory, and on return the list holds
\* every file of the tree whose extension is bms, bme, bml, pms or bmson.
C30_DiscoveryTerminates ==
    <>(/\ dpc = "returned"
       /\ \A path \in ChartsOfTree :
             \E k \in 1..Len(chart_files) : chart_files[k] = path)

====
